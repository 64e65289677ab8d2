---------------------------- MODULE OutboxProofs ----------------------------
(***************************************************************************)
(* Proofs about Outbox for any channels, events, pollers, batch size and   *)
(* attempt limit, whatever fails or crashes: who holds a row, that the     *)
(* outbox is a TaskPool, and what it counts and records: attempts against  *)
(* the calls really made, "delivered" against what a receiver accepted.    *)
(***************************************************************************)
EXTENDS Outbox, SequenceTheorems, TLAPS

\* A poller waits for the ticker exactly when it has nothing claimed.
Working == \A p \in Pollers : pc[p] = "idle" <=> batch[p] = <<>>

\* A row is due once, and only while nobody has it.
DueOnce ==
  /\ \A i \in DOMAIN due : rows[due[i]].status = "pending"
  /\ \A i, j \in DOMAIN due : due[i] = due[j] => i = j

Inv == TypeOK /\ Working /\ DueOnce /\ Exclusive

LEMMA InvInit == Init => Inv
<1> SUFFICES ASSUME Init PROVE Inv
  OBVIOUS
<1> USE DEF Init
<1>1. TypeOK
  BY DEF TypeOK
<1>2. Working /\ DueOnce
  BY DEF Working, DueOnce
<1>3. Exclusive
  BY DEF Exclusive, Held
<1> QED BY <1>1, <1>2, <1>3 DEF Inv

\* The row a working poller works on.
LEMMA CurrentRow ==
  ASSUME Inv, NEW p \in Pollers, pc[p] # "idle"
  PROVE  /\ batch[p] \in Seq(Entry) /\ batch[p] # <<>>
         /\ Current(p) \in Entry
         /\ Current(p) = batch[p][1]
         /\ Current(p).id \in Held(p)
         /\ Current(p).id \in DOMAIN rows
         /\ rows[Current(p).id] \in Row
         /\ rows[Current(p).id].status = "processing"
<1>1. batch[p] \in Seq(Entry) /\ batch[p] # <<>>
  BY DEF Inv, Working, TypeOK
<1>2. Current(p) = batch[p][1] /\ 1 \in DOMAIN batch[p] /\ Current(p) \in Entry
  BY <1>1 DEF Current
<1>3. Current(p).id \in Held(p)
  BY <1>2 DEF Held
<1>4. Current(p).id \in DOMAIN rows /\ rows[Current(p).id].status = "processing"
  BY <1>3 DEF Inv, Exclusive
<1>5. rows[Current(p).id] \in Row
  BY <1>4, ElementOfSeq DEF Inv, TypeOK
<1> QED BY <1>1, <1>2, <1>3, <1>4, <1>5

\* Steps that leave rows, due and the batches alone.
LEMMA InvAside ==
  ASSUME Inv, TypeOK', UNCHANGED <<rows, due, batch>>,
         \A p \in Pollers : pc'[p] = "idle" <=> pc[p] = "idle"
  PROVE  Inv'
<1>1. \A q \in Pollers : Held(q)' = Held(q)
  BY DEF Held
<1>2. Exclusive'
  BY <1>1 DEF Inv, Exclusive
<1>3. Working' /\ DueOnce'
  BY DEF Inv, Working, DueOnce
<1> QED BY <1>2, <1>3 DEF Inv

\* A change of one row that leaves its status alone keeps everything else.
LEMMA RowChanged ==
  ASSUME rows \in Seq(Row), NEW r \in DOMAIN rows, NEW row \in Row,
         rows' = [rows EXCEPT ![r] = row]
  PROVE  /\ rows' \in Seq(Row)
         /\ DOMAIN rows' = DOMAIN rows
         /\ rows'[r] = row
         /\ \A q \in DOMAIN rows : q # r => rows'[q] = rows[q]
<1>1. r \in 1..Len(rows)
  OBVIOUS
<1>2. /\ rows' \in Seq(Row)
      /\ Len(rows') = Len(rows)
      /\ \A q \in 1..Len(rows) : rows'[q] = IF q = r THEN row ELSE rows[q]
  BY <1>1, ExceptSeq
<1> QED BY <1>1, <1>2

LEMMA InvSend ==
  ASSUME Inv, NEW p \in Pollers, NEW o \in Outcomes, Send(p, o)
  PROVE  Inv'
<1> DEFINE r == Current(p).id
           copies == rows[r].accepted + IF o = "accepted" THEN 1 ELSE 0
           row == Sent(rows[r], o)
<1>1. r \in DOMAIN rows /\ rows[r] \in Row
  BY CurrentRow DEF Send
<1>2. row \in Row /\ row.status = rows[r].status
  <2>1. copies \in Nat
    BY <1>1 DEF Row
  <2> HIDE DEF copies
  <2>2. rows[r].sends + 1 \in Nat
    BY <1>1 DEF Row
  <2>3. row = [rows[r] EXCEPT !.sends = rows[r].sends + 1, !.accepted = copies]
    BY DEF Sent, copies
  <2> HIDE DEF row
  <2> QED BY <1>1, <2>1, <2>2, <2>3 DEF Row
<1>3. rows' = [rows EXCEPT ![r] = row]
  BY DEF Send
<1> HIDE DEF row, r
<1>4. /\ rows' \in Seq(Row)
      /\ DOMAIN rows' = DOMAIN rows
      /\ \A q \in DOMAIN rows : rows'[q].status = rows[q].status
  BY <1>1, <1>2, <1>3, RowChanged DEF Inv, TypeOK
<1>5. TypeOK'
  BY <1>4, OutcomeAssumption DEF Inv, TypeOK, Send, Record, enqueue
<1>6. Working'
  BY DEF Inv, Working, TypeOK, Send, Record
<1>7. DueOnce'
  BY <1>4 DEF Inv, DueOnce, Send, TypeOK
<1>8. Exclusive'
  <2>1. batch' = batch /\ \A q \in Pollers : Held(q)' = Held(q)
    BY DEF Held, Send
  <2> QED BY <1>4, <2>1 DEF Inv, Exclusive
<1> QED BY <1>5, <1>6, <1>7, <1>8 DEF Inv

\* What Advance does to the batches: the poller drops its current row.
LEMMA Advanced ==
  ASSUME Inv, NEW p \in Pollers, pc[p] = "mark", Advance(p)
  PROVE  /\ batch' \in [Pollers -> Seq(Entry)]
         /\ pc' \in [Pollers -> {"idle", "fetch", "send", "mark"}]
         /\ outcome' \in [Pollers -> AllOutcomes \union {"swallowed", None}]
         /\ Working'
         /\ \A q \in Pollers : q # p => batch'[q] = batch[q] /\ Held(q)' = Held(q)
         /\ Held(p)' = Held(p) \ {Current(p).id}
         /\ \A i, j \in DOMAIN batch'[p] : batch'[p][i].id = batch'[p][j].id => i = j
<1>1. /\ batch[p] \in Seq(Entry) /\ batch[p] # <<>>
      /\ Current(p) = batch[p][1]
  BY CurrentRow
<1>2. batch' = [batch EXCEPT ![p] = Tail(batch[p])]
  BY DEF Advance
<1>3. /\ batch'[p] = Tail(batch[p])
      /\ Tail(batch[p]) \in Seq(Entry)
      /\ Len(Tail(batch[p])) = Len(batch[p]) - 1
      /\ \A i \in 1..(Len(batch[p]) - 1) : Tail(batch[p])[i] = batch[p][i + 1]
  BY <1>1, <1>2, HeadTailProperties DEF Inv, TypeOK
<1>4. Len(batch[p]) \in Nat \ {0}
  BY <1>1, EmptySeq
<1>5. DOMAIN batch'[p] = 1..(Len(batch[p]) - 1) /\ DOMAIN batch[p] = 1..Len(batch[p])
  BY <1>1, <1>3, <1>4
<1>6. \A i, j \in DOMAIN batch[p] : batch[p][i].id = batch[p][j].id => i = j
  BY DEF Inv, Exclusive
<1>7. \A i, j \in DOMAIN batch'[p] : batch'[p][i].id = batch'[p][j].id => i = j
  <2>1. ASSUME NEW i \in DOMAIN batch'[p], NEW j \in DOMAIN batch'[p],
               batch'[p][i].id = batch'[p][j].id
        PROVE  i = j
    <3>1. /\ i + 1 \in DOMAIN batch[p] /\ batch'[p][i] = batch[p][i + 1]
          /\ j + 1 \in DOMAIN batch[p] /\ batch'[p][j] = batch[p][j + 1]
          /\ i \in Nat /\ j \in Nat
      BY <1>3, <1>4, <1>5
    <3>2. i + 1 = j + 1
      BY <1>6, <2>1, <3>1
    <3> QED BY <3>1, <3>2
  <2> QED BY <2>1
<1>8. Held(p)' = Held(p) \ {Current(p).id}
  <2>1. Held(p)' = {batch'[p][i].id : i \in DOMAIN batch'[p]}
    BY DEF Held
  <2>2. Held(p)' \subseteq Held(p) \ {Current(p).id}
    <3>1. ASSUME NEW i \in DOMAIN batch'[p]
          PROVE  batch'[p][i].id \in Held(p) \ {Current(p).id}
      <4>1. i + 1 \in DOMAIN batch[p] /\ 1 \in DOMAIN batch[p] /\ i + 1 # 1
        BY <1>4, <1>5
      <4>2. batch'[p][i] = batch[p][i + 1]
        BY <1>3, <1>5
      <4> QED BY <1>1, <1>6, <4>1, <4>2 DEF Held
    <3> QED BY <2>1, <3>1
  <2>3. Held(p) \ {Current(p).id} \subseteq Held(p)'
    <3>1. ASSUME NEW j \in DOMAIN batch[p], batch[p][j].id # Current(p).id
          PROVE  batch[p][j].id \in Held(p)'
      <4>1. j # 1
        BY <1>1, <3>1
      <4>2. j - 1 \in DOMAIN batch'[p] /\ batch'[p][j - 1] = batch[p][j]
        BY <1>3, <1>4, <1>5, <4>1
      <4> QED BY <2>1, <4>2
    <3> QED BY <3>1 DEF Held
  <2> QED BY <2>2, <2>3
<1>9. \A q \in Pollers : q # p => batch'[q] = batch[q] /\ Held(q)' = Held(q)
  BY <1>2 DEF Held, Inv, TypeOK
<1>10. batch' \in [Pollers -> Seq(Entry)]
  BY <1>2, <1>3 DEF Inv, TypeOK
<1>11. Len(batch[p]) = 1 <=> Tail(batch[p]) = <<>>
  <2>1. Tail(batch[p]) = <<>> <=> Len(Tail(batch[p])) = 0
    BY <1>3, EmptySeq
  <2> QED BY <1>3, <1>4, <2>1
<1>12. Working'
  BY <1>3, <1>9, <1>11 DEF Advance, Working, Inv, TypeOK
<1>13. /\ pc' \in [Pollers -> {"idle", "fetch", "send", "mark"}]
       /\ outcome' \in [Pollers -> AllOutcomes \union {"swallowed", None}]
  BY DEF Advance, Inv, TypeOK
<1> QED BY <1>7, <1>8, <1>9, <1>10, <1>12, <1>13

\* Recording a result: the row is no longer held, so it may leave "processing".
LEMMA InvMark ==
  ASSUME Inv, NEW p \in Pollers, MarkDelivered(p) \/ MarkRetry(p) \/ MarkError(p)
  PROVE  Inv'
<1> DEFINE r == Current(p).id
<1>1. /\ pc[p] = "mark" /\ Advance(p)
      /\ UNCHANGED <<channels, enqueue, due>>
      /\ faults' \in Nat
  BY DEF MarkDelivered, MarkRetry, MarkError, Fault, Inv, TypeOK
<1>2. /\ r \in DOMAIN rows /\ rows[r] \in Row /\ r \in Held(p)
      /\ rows[r].status = "processing" /\ Current(p) \in Entry
  BY <1>1, CurrentRow
<1>3. PICK row \in Row : rows' = [rows EXCEPT ![r] = row]
  <2>1. CASE MarkDelivered(p)
    <3>1. [rows[r] EXCEPT !.status = "delivered"] \in Row
      BY <1>2 DEF Row
    <3> QED BY <2>1, <3>1 DEF MarkDelivered
  <2>2. CASE MarkRetry(p)
    <3> DEFINE n == Current(p).attempts + 1
    <3>1. n \in Nat /\ outcome[p] \in Undelivered
      BY <1>2, <2>2 DEF Entry, MarkRetry
    <3> HIDE DEF n
    <3>2. [rows[r] EXCEPT !.attempts = n, !.last = outcome[p],
             !.status = IF n >= MaxAttempts THEN "failed" ELSE "pending"] \in Row
      BY <1>2, <3>1 DEF Row
    <3> QED BY <2>2, <3>2 DEF MarkRetry, n
  <2>3. CASE MarkError(p)
    <3>1. rows' = [rows EXCEPT ![r] = rows[r]]
      BY <1>2, <2>3 DEF MarkError, Inv, TypeOK
    <3> QED BY <1>2, <3>1
  <2> QED BY <2>1, <2>2, <2>3
<1> HIDE DEF r
<1>4. /\ rows' \in Seq(Row)
      /\ DOMAIN rows' = DOMAIN rows
      /\ \A q \in DOMAIN rows : q # r => rows'[q] = rows[q]
  BY <1>2, <1>3, RowChanged DEF Inv, TypeOK
<1>5. TypeOK'
  BY <1>1, <1>4, Advanced DEF Inv, TypeOK, enqueue
<1>6. DueOnce'
  <2>1. \A i \in DOMAIN due : due[i] \in DOMAIN rows /\ due[i] # r
    BY <1>2 DEF Inv, DueOnce, TypeOK
  <2> QED BY <1>1, <1>4, <2>1 DEF Inv, DueOnce
<1>7. Exclusive'
  <2>1. /\ \A q \in Pollers : q # p => batch'[q] = batch[q] /\ Held(q)' = Held(q)
        /\ Held(p)' = Held(p) \ {r}
        /\ \A i, j \in DOMAIN batch'[p] : batch'[p][i].id = batch'[p][j].id => i = j
    BY <1>1, Advanced DEF r
  <2>2. \A q \in Pollers : \A i, j \in DOMAIN batch'[q] :
          batch'[q][i].id = batch'[q][j].id => i = j
    BY <2>1 DEF Inv, Exclusive
  <2>3. \A q1, q2 \in Pollers : q1 # q2 => Held(q1)' \intersect Held(q2)' = {}
    BY <2>1 DEF Inv, Exclusive
  <2>4. ASSUME NEW q \in Pollers, NEW s, s \in Held(q)'
        PROVE  s \in DOMAIN rows' /\ rows'[s].status = "processing"
    <3>1. s \in Held(q) /\ s # r
      BY <1>2, <2>1, <2>4 DEF Inv, Exclusive
    <3> QED BY <1>4, <3>1 DEF Inv, Exclusive
  <2> QED BY <2>2, <2>3, <2>4 DEF Exclusive
<1> QED BY <1>1, <1>5, <1>6, <1>7, Advanced DEF Inv

\* A claim: the first due rows become the batch, and leave the due ones.
LEMMA Claimed ==
  ASSUME Inv, NEW p \in Pollers, ClaimPending(p)
  PROVE  /\ Claimable \in 1..Len(due)
         /\ Len(due) \in Nat /\ DOMAIN due = 1..Len(due)
         /\ Held(p)' = {due[i] : i \in 1..Claimable}
         /\ \A q \in Pollers : q # p => batch'[q] = batch[q] /\ Held(q)' = Held(q)
         /\ batch'[p] \in Seq(Entry) /\ batch'[p] # <<>> /\ batch' \in [Pollers -> Seq(Entry)]
         /\ \A i, j \in DOMAIN batch'[p] : batch'[p][i].id = batch'[p][j].id => i = j
         /\ rows' \in Seq(Row) /\ DOMAIN rows' = DOMAIN rows
         /\ \A r \in DOMAIN rows :
              IF r \in Held(p)' THEN rows'[r] = [rows[r] EXCEPT !.status = "processing"]
              ELSE rows'[r] = rows[r]
<1>1. Len(due) \in Nat \ {0} /\ DOMAIN due = 1..Len(due) /\ due \in Seq(DOMAIN rows)
  BY EmptySeq DEF ClaimPending, Inv, TypeOK
<1>2. Claimable \in 1..Len(due) /\ Claimable \in Nat /\ Claimable <= Len(due)
  BY <1>1, OutboxAssumption DEF Claimable
<1>3. \A i \in 1..Claimable : i \in DOMAIN due /\ due[i] \in DOMAIN rows /\ due[i] \in Nat
                      /\ rows[due[i]] \in Row
  <2>1. rows \in Seq(Row) /\ DOMAIN rows = 1..Len(rows)
    BY DEF Inv, TypeOK
  <2> SUFFICES ASSUME NEW i \in 1..Claimable
               PROVE  i \in DOMAIN due /\ due[i] \in DOMAIN rows /\ due[i] \in Nat
                      /\ rows[due[i]] \in Row
    OBVIOUS
  <2>2. i \in 1..Len(due)
    BY <1>1, <1>2
  <2>3. due[i] \in DOMAIN rows
    BY <1>1, <2>2, ElementOfSeq
  <2> QED BY <1>1, <2>1, <2>2, <2>3, ElementOfSeq
<1> DEFINE entry(i) == [id |-> due[i], attempts |-> rows[due[i]].attempts]
           taken == [i \in 1..Claimable |-> entry(i)]
<1>4. batch' = [batch EXCEPT ![p] = taken]
  BY DEF ClaimPending
<1>5. \A i \in 1..Claimable : entry(i) \in Entry /\ entry(i).id = due[i]
  BY <1>3 DEF Entry, Row
<1> HIDE DEF entry
<1>6. taken \in Seq(Entry) /\ Len(taken) = Claimable /\ DOMAIN taken = 1..Claimable
  BY <1>1, <1>2, <1>5, IsASeq
<1>7. batch'[p] = taken /\ batch' \in [Pollers -> Seq(Entry)]
  BY <1>4, <1>6 DEF Inv, TypeOK
<1>8. \A i \in 1..Claimable : taken[i].id = due[i]
  BY <1>5
<1> HIDE DEF taken
<1>9. Held(p)' = {due[i] : i \in 1..Claimable}
  BY <1>6, <1>7, <1>8 DEF Held
<1>10. \A i, j \in DOMAIN batch'[p] : batch'[p][i].id = batch'[p][j].id => i = j
  BY <1>3, <1>6, <1>7, <1>8 DEF Inv, DueOnce
<1>11. \A q \in Pollers : q # p => batch'[q] = batch[q] /\ Held(q)' = Held(q)
  BY <1>4 DEF Held, Inv, TypeOK
<1>12. batch'[p] # <<>>
  BY <1>2, <1>6, <1>7, EmptySeq
<1> DEFINE claimed == {due[i] : i \in 1..Claimable}
           now(r) == IF r \in claimed THEN [rows[r] EXCEPT !.status = "processing"] ELSE rows[r]
<1>13. rows' = [r \in DOMAIN rows |-> now(r)]
  BY DEF ClaimPending
<1>14. rows \in Seq(Row) /\ DOMAIN rows = 1..Len(rows) /\ Len(rows) \in Nat
  BY DEF Inv, TypeOK
<1>15. \A r \in DOMAIN rows : now(r) \in Row
  <2> SUFFICES ASSUME NEW r \in DOMAIN rows PROVE now(r) \in Row
    OBVIOUS
  <2>1. rows[r] \in Row
    BY <1>14, ElementOfSeq
  <2>2. [rows[r] EXCEPT !.status = "processing"] \in Row
    BY <2>1 DEF Row
  <2> QED BY <2>1, <2>2
<1>16. rows' \in Seq(Row) /\ DOMAIN rows' = DOMAIN rows
  <2> HIDE DEF now
  <2>1. rows' = [r \in 1..Len(rows) |-> now(r)]
    BY <1>13, <1>14
  <2> QED BY <1>14, <1>15, <2>1, IsASeq
<1>17. \A r \in DOMAIN rows :
         IF r \in Held(p)' THEN rows'[r] = [rows[r] EXCEPT !.status = "processing"]
         ELSE rows'[r] = rows[r]
  BY <1>9, <1>13
<1> QED BY <1>1, <1>2, <1>7, <1>9, <1>10, <1>11, <1>12, <1>16, <1>17, <1>6

LEMMA InvClaim ==
  ASSUME Inv, NEW p \in Pollers, ClaimPending(p)
  PROVE  Inv'
<1>1. /\ Claimable \in 1..Len(due)
      /\ Len(due) \in Nat /\ DOMAIN due = 1..Len(due)
      /\ Held(p)' = {due[i] : i \in 1..Claimable}
      /\ \A q \in Pollers : q # p => batch'[q] = batch[q] /\ Held(q)' = Held(q)
      /\ batch'[p] # <<>> /\ batch' \in [Pollers -> Seq(Entry)]
      /\ \A i, j \in DOMAIN batch'[p] : batch'[p][i].id = batch'[p][j].id => i = j
      /\ rows' \in Seq(Row) /\ DOMAIN rows' = DOMAIN rows
      /\ \A r \in DOMAIN rows :
           IF r \in Held(p)' THEN rows'[r] = [rows[r] EXCEPT !.status = "processing"]
           ELSE rows'[r] = rows[r]
  BY Claimed
<1>2. /\ due' = SubSeq(due, Claimable + 1, Len(due))
      /\ UNCHANGED <<channels, enqueue, outcome, faults>>
      /\ pc' = [pc EXCEPT ![p] = "fetch"]
  BY DEF ClaimPending
<1>3. due \in Seq(DOMAIN rows)
  BY DEF Inv, TypeOK
<1>4. \A i \in (Claimable + 1)..Len(due) : due[i] \in DOMAIN rows /\ i \in DOMAIN due
  BY <1>1, <1>3, ElementOfSeq
<1>5. /\ due' \in Seq(DOMAIN rows)
      /\ Len(due') = Len(due) - Claimable
      /\ \A i \in 1..(Len(due) - Claimable) : due'[i] = due[Claimable + i]
  <2>1. Claimable + 1 \in Int /\ Len(due) \in Int
    BY <1>1
  <2>2. /\ SubSeq(due, Claimable + 1, Len(due)) \in Seq(DOMAIN rows)
        /\ Len(SubSeq(due, Claimable + 1, Len(due))) =
             IF Claimable + 1 <= Len(due) THEN Len(due) - (Claimable + 1) + 1 ELSE 0
        /\ \A i \in 1..(Len(due) - (Claimable + 1) + 1) :
             SubSeq(due, Claimable + 1, Len(due))[i] = due[Claimable + 1 + i - 1]
    BY <1>4, <2>1, SubSeqProperties
  <2>3. \A i \in 1..(Len(due) - Claimable) : Claimable + 1 + i - 1 = Claimable + i
    BY <1>1
  <2> QED BY <1>1, <1>2, <2>2, <2>3
<1>6. DOMAIN due' = 1..(Len(due) - Claimable)
  BY <1>1, <1>5
<1>7. TypeOK'
  BY <1>1, <1>2, <1>5 DEF Inv, TypeOK, enqueue
<1>8. Working'
  BY <1>1, <1>2 DEF Inv, Working, TypeOK
<1>9. \A i \in 1..(Len(due) - Claimable) : /\ Claimable + i \in DOMAIN due /\ Claimable + i \notin 1..Claimable
                                   /\ due'[i] = due[Claimable + i]
                                   /\ due[Claimable + i] \in DOMAIN rows
  BY <1>1, <1>4, <1>5
<1>10. DueOnce'
  <2>1. ASSUME NEW i \in 1..(Len(due) - Claimable)
        PROVE  rows'[due'[i]].status = "pending"
    <3>1. due[Claimable + i] \notin Held(p)'
      BY <1>1, <1>9 DEF Inv, DueOnce
    <3>2. rows[due[Claimable + i]].status = "pending"
      BY <1>9 DEF Inv, DueOnce
    <3> QED BY <1>1, <1>9, <3>1, <3>2
  <2>2. ASSUME NEW i \in 1..(Len(due) - Claimable), NEW j \in 1..(Len(due) - Claimable), due'[i] = due'[j]
        PROVE  i = j
    <3>1. Claimable + i = Claimable + j
      BY <1>9, <2>2 DEF Inv, DueOnce
    <3> QED BY <1>1, <3>1
  <2> QED BY <1>6, <2>1, <2>2 DEF DueOnce
<1>11. \A r \in Held(p)' : r \in DOMAIN rows /\ rows[r].status = "pending"
  <2>1. ASSUME NEW i \in 1..Claimable
        PROVE  due[i] \in DOMAIN rows /\ rows[due[i]].status = "pending"
    BY <1>1, <1>3, ElementOfSeq DEF Inv, DueOnce
  <2> QED BY <1>1, <2>1
<1>12. \A r \in Held(p)' : rows'[r].status = "processing"
  <2> SUFFICES ASSUME NEW r, r \in Held(p)' PROVE rows'[r].status = "processing"
    OBVIOUS
  <2>1. r \in DOMAIN rows /\ rows[r] \in Row
    BY <1>11, ElementOfSeq DEF Inv, TypeOK
  <2> QED BY <1>1, <2>1 DEF Row
<1>13. \A q \in Pollers : q # p =>
         \A r \in Held(q)' : r \notin Held(p)' /\ r \in DOMAIN rows
                             /\ rows[r].status = "processing"
  BY <1>1, <1>11 DEF Inv, Exclusive
<1>14. Exclusive'
  <2>1. \A q \in Pollers : \A i, j \in DOMAIN batch'[q] :
          batch'[q][i].id = batch'[q][j].id => i = j
    BY <1>1 DEF Inv, Exclusive
  <2>2. \A q1, q2 \in Pollers : q1 # q2 => Held(q1)' \intersect Held(q2)' = {}
    BY <1>1, <1>13 DEF Inv, Exclusive
  <2>3. \A q \in Pollers : \A r \in Held(q)' :
          r \in DOMAIN rows' /\ rows'[r].status = "processing"
    BY <1>1, <1>11, <1>12, <1>13
  <2> QED BY <2>1, <2>2, <2>3 DEF Exclusive
<1> QED BY <1>7, <1>8, <1>10, <1>14 DEF Inv

LEMMA InvEnqueue ==
  ASSUME Inv, NEW ev \in Events, NEW c \in Channels, EnqueueNotification(ev, c)
  PROVE  Inv'
<1> DEFINE row == [event |-> ev, channel |-> c, status |-> "pending",
                   attempts |-> 0, last |-> None, sends |-> 0, accepted |-> 0]
           n == Len(rows)
<1>1. row \in Row /\ row.status = "pending"
  BY DEF Row
<1>2. rows' = Append(rows, row) /\ due' = Append(due, n + 1)
      /\ UNCHANGED <<channels, listed, poller, faults>>
      /\ todo' = [todo EXCEPT ![ev] = @ \ {c}]
  BY DEF EnqueueNotification
<1> HIDE DEF row
<1>3. rows \in Seq(Row) /\ n \in Nat /\ DOMAIN rows = 1..n
  BY DEF Inv, TypeOK
<1>4. /\ rows' \in Seq(Row) /\ DOMAIN rows' = 1..(n + 1)
      /\ \A r \in 1..n : rows'[r] = rows[r]
      /\ rows'[n + 1] = row
  BY <1>1, <1>2, <1>3, AppendProperties
<1>5. due \in Seq(DOMAIN rows') /\ Len(due) \in Nat /\ DOMAIN due = 1..Len(due)
      /\ \A i \in DOMAIN due : due[i] \in 1..n
  <2>1. due \in Seq(DOMAIN rows) /\ DOMAIN rows \subseteq DOMAIN rows'
    BY <1>3, <1>4 DEF Inv, TypeOK
  <2>2. due \in Seq(DOMAIN rows')
    BY <2>1, SeqMonotonic
  <2>3. Len(due) \in Nat /\ DOMAIN due = 1..Len(due)
    BY <2>1
  <2> QED BY <1>3, <2>1, <2>2, <2>3, ElementOfSeq
<1>6. /\ due' \in Seq(DOMAIN rows') /\ DOMAIN due' = 1..(Len(due) + 1)
      /\ \A i \in DOMAIN due : due'[i] = due[i]
      /\ due'[Len(due) + 1] = n + 1
  BY <1>2, <1>3, <1>4, <1>5, AppendProperties
<1>7. TypeOK'
  BY <1>2, <1>4, <1>6 DEF Inv, TypeOK, poller
<1>8. Working'
  BY <1>2 DEF Inv, Working, poller
<1>9. DueOnce'
  <2>1. ASSUME NEW i \in DOMAIN due'
        PROVE  rows'[due'[i]].status = "pending"
    BY <1>1, <1>3, <1>4, <1>5, <1>6, <2>1 DEF Inv, DueOnce
  <2>2. ASSUME NEW i \in DOMAIN due', NEW j \in DOMAIN due', due'[i] = due'[j]
        PROVE  i = j
    <3>1. ASSUME NEW k \in DOMAIN due' PROVE k \in DOMAIN due \/ k = Len(due) + 1
      BY <1>5, <1>6, <3>1
    <3>2. CASE i \in DOMAIN due /\ j \in DOMAIN due
      BY <1>6, <2>2, <3>2 DEF Inv, DueOnce
    <3> QED BY <1>3, <1>5, <1>6, <2>2, <3>1, <3>2
  <2> QED BY <2>1, <2>2 DEF DueOnce
<1>10. Exclusive'
  <2>1. \A q \in Pollers : batch'[q] = batch[q] /\ Held(q)' = Held(q)
    BY <1>2 DEF poller, Held
  <2> QED BY <1>3, <1>4, <2>1 DEF Inv, Exclusive
<1> QED BY <1>7, <1>8, <1>9, <1>10 DEF Inv

LEMMA InvComesDue ==
  ASSUME Inv, NEW r \in DOMAIN rows, ComesDue(r)
  PROVE  Inv'
<1>1. /\ due' = Append(due, r) /\ rows[r].status = "pending" /\ r \notin ToSet(due)
      /\ UNCHANGED <<channels, enqueue, rows, poller, faults>>
  BY DEF ComesDue
<1>2. due \in Seq(DOMAIN rows) /\ Len(due) \in Nat /\ DOMAIN due = 1..Len(due)
  BY DEF Inv, TypeOK
<1>3. /\ due' \in Seq(DOMAIN rows) /\ DOMAIN due' = 1..(Len(due) + 1)
      /\ \A i \in DOMAIN due : due'[i] = due[i]
      /\ due'[Len(due) + 1] = r
  BY <1>1, <1>2, AppendProperties
<1>4. \A i \in DOMAIN due : due[i] # r
  BY <1>1 DEF ToSet
<1>5. DueOnce'
  <2>1. \A k \in DOMAIN due' : k \in DOMAIN due \/ k = Len(due) + 1
    BY <1>2, <1>3
  <2> QED BY <1>1, <1>2, <1>3, <1>4, <2>1 DEF Inv, DueOnce
<1>6. Exclusive'
  <2>1. \A q \in Pollers : batch'[q] = batch[q] /\ Held(q)' = Held(q)
    BY <1>1 DEF poller, Held
  <2> QED BY <1>1, <2>1 DEF Inv, Exclusive
<1>7. TypeOK' /\ Working'
  BY <1>1, <1>3 DEF Inv, TypeOK, Working, enqueue, poller
<1> QED BY <1>5, <1>6, <1>7 DEF Inv

LEMMA InvCrash ==
  ASSUME Inv, NEW p \in Pollers, Crash(p)
  PROVE  Inv'
<1>1. batch'[p] = <<>> /\ Held(p)' = {}
  BY DEF Crash, Held, Inv, TypeOK
<1>2. \A q \in Pollers : q # p => batch'[q] = batch[q] /\ Held(q)' = Held(q)
  BY DEF Crash, Held, Inv, TypeOK
<1>3. Exclusive'
  BY <1>1, <1>2 DEF Inv, Exclusive, Crash
<1>4. TypeOK' /\ Working' /\ DueOnce'
  BY <1>1, <1>2 DEF Inv, TypeOK, Working, DueOnce, Crash, Fault, enqueue
<1> QED BY <1>3, <1>4 DEF Inv

LEMMA InvFetch ==
  ASSUME Inv, NEW p \in Pollers, FetchChannel(p) \/ FetchError(p)
  PROVE  Inv'
<1>0. due' \in Seq(DOMAIN rows')
  BY DEF FetchChannel, FetchError, Inv, TypeOK
<1>1. TypeOK'
  <2>1. CASE FetchChannel(p)
    BY <1>0, <2>1 DEF FetchChannel, Record, Inv, TypeOK, enqueue
  <2>2. CASE FetchError(p)
    BY <1>0, <2>2 DEF FetchError, Record, Fault, Inv, TypeOK, enqueue
  <2> QED BY <2>1, <2>2
<1>2. /\ UNCHANGED <<rows, due, batch>>
      /\ \A q \in Pollers : pc'[q] = "idle" <=> pc[q] = "idle"
  BY DEF FetchChannel, FetchError, Record, Inv, TypeOK
<1> QED BY <1>1, <1>2, InvAside

\* Users and the listing of channels.
LEMMA InvElsewhere ==
  ASSUME Inv, \/ \E c \in Channels : Withdraw(c) \/ \E b \in BOOLEAN : SetEnabled(c, b)
              \/ \E ev \in Events : ListChannels(ev) \/ Abandon(ev)
              \/ \E ev \in Events, c \in Channels : EnqueueError(ev, c)
              \/ UNCHANGED vars
  PROVE  Inv'
<1> USE DEF Withdraw, SetEnabled, ListChannels, Abandon, EnqueueError, Fault,
            enqueue, poller, vars
<1>1. UNCHANGED <<rows, due, batch, pc, outcome>>
  OBVIOUS
<1>2. /\ rows' \in Seq(Row) /\ due' \in Seq(DOMAIN rows')
      /\ batch' \in [Pollers -> Seq(Entry)]
  BY <1>1 DEF Inv, TypeOK
<1>3. /\ channels' \in [Channels -> {"enabled", "disabled", "gone"}]
      /\ listed' \subseteq Events
      /\ todo' \in [Events -> SUBSET Channels]
      /\ faults' \in Nat
  <2> USE DEF Inv, TypeOK
  <2>1. ASSUME NEW c \in Channels, Withdraw(c) \/ \E b \in BOOLEAN : SetEnabled(c, b)
        PROVE  /\ channels' \in [Channels -> {"enabled", "disabled", "gone"}]
               /\ UNCHANGED <<listed, todo, faults>>
    BY <2>1
  <2>2. ASSUME NEW ev \in Events, ListChannels(ev) \/ Abandon(ev)
        PROVE  /\ listed' \subseteq Events
               /\ todo' \in [Events -> SUBSET Channels]
               /\ faults' \in Nat /\ channels' = channels
    <3>1. CASE ListChannels(ev)
      <4> DEFINE enabled == {c \in Channels : channels[c] = "enabled"}
      <4>1. enabled \in SUBSET Channels /\ todo' = [todo EXCEPT ![ev] = enabled]
        BY <3>1
      <4> HIDE DEF enabled
      <4> QED BY <3>1, <4>1
    <3>2. CASE Abandon(ev)
      BY <3>2
    <3> QED BY <2>2, <3>1, <3>2
  <2>3. CASE \E ev \in Events, c \in Channels : EnqueueError(ev, c)
    BY <2>3
  <2>4. CASE UNCHANGED vars
    BY <2>4
  <2> QED BY <2>1, <2>2, <2>3, <2>4
<1>4. TypeOK'
  BY <1>1, <1>2, <1>3 DEF Inv, TypeOK
<1> QED BY <1>1, <1>4, InvAside

LEMMA InvNext == Inv /\ [Next]_vars => Inv'
BY InvElsewhere, InvEnqueue, InvComesDue, InvClaim, InvFetch, InvSend, InvMark, InvCrash
DEF Next, Deliver, PollerFault

LEMMA InvAlways == Spec => []Inv
BY InvInit, InvNext, PTL DEF Spec

\* Every variable keeps its type.
THEOREM TypeCorrect == Spec => []TypeOK
<1>1. Inv => TypeOK
  BY DEF Inv
<1> QED BY <1>1, InvAlways, PTL

\* No notice is ever being delivered by two pollers, or twice by one, however
\* many pollers claim, deliver, fail and crash.
THEOREM ExclusiveAlways == Spec => []Exclusive
<1>1. Inv => Exclusive
  BY DEF Inv
<1> QED BY <1>1, InvAlways, PTL

------------------------------------------------------------------------------
(* The outbox implements TaskPool. *)

\* What Holder says of a row, without its CASE and CHOOSE.
HolderFacts ==
  \A r :
    /\ r \notin DOMAIN rows => Holder(r) = "absent"
    /\ r \in DOMAIN rows =>
         /\ rows[r].status \in {"pending", "processing", "delivered", "failed"}
         /\ rows[r].status = "pending" => Holder(r) = "waiting"
         /\ rows[r].status \in {"delivered", "failed"} => Holder(r) = "done"
         /\ rows[r].status = "processing" /\ (\A p \in Pollers : r \notin Held(p)) => Holder(r) = "lost"
    /\ \A p \in Pollers : r \in Held(p) => Holder(r) = p

LEMMA HolderIs == Inv => HolderFacts
<1> SUFFICES ASSUME Inv, NEW r
    PROVE /\ r \notin DOMAIN rows => Holder(r) = "absent"
          /\ r \in DOMAIN rows =>
               /\ rows[r].status \in {"pending", "processing", "delivered", "failed"}
               /\ rows[r].status = "pending" => Holder(r) = "waiting"
               /\ rows[r].status \in {"delivered", "failed"} => Holder(r) = "done"
               /\ rows[r].status = "processing" /\ (\A p \in Pollers : r \notin Held(p)) => Holder(r) = "lost"
          /\ \A p \in Pollers : r \in Held(p) => Holder(r) = p
  BY DEF HolderFacts
<1>1. r \notin DOMAIN rows => Holder(r) = "absent"
  BY DEF Holder
<1>2. ASSUME r \in DOMAIN rows
      PROVE  /\ rows[r].status \in {"pending", "processing", "delivered", "failed"}
             /\ rows[r].status = "pending" => Holder(r) = "waiting"
             /\ rows[r].status \in {"delivered", "failed"} => Holder(r) = "done"
             /\ rows[r].status = "processing" /\ (\A p \in Pollers : r \notin Held(p)) => Holder(r) = "lost"
  <2>1. rows[r] \in Row
    BY <1>2, ElementOfSeq DEF Inv, TypeOK
  <2>2. rows[r].status \in {"pending", "processing", "delivered", "failed"}
    BY <2>1 DEF Row
  <2>3. rows[r].status = "pending" => Holder(r) = "waiting"
    BY <1>2 DEF Holder
  <2>4. rows[r].status \in {"delivered", "failed"} => Holder(r) = "done"
    BY <1>2 DEF Holder
  <2>5. rows[r].status = "processing" /\ (\A p \in Pollers : r \notin Held(p)) => Holder(r) = "lost"
    BY <1>2 DEF Holder
  <2> QED BY <2>2, <2>3, <2>4, <2>5
<1>3. ASSUME NEW p \in Pollers, r \in Held(p)
      PROVE  Holder(r) = p
  <2>1. r \in DOMAIN rows /\ rows[r].status = "processing"
    BY <1>3 DEF Inv, Exclusive
  <2>2. \A q \in Pollers : r \in Held(q) => q = p
    BY <1>3 DEF Inv, Exclusive
  <2>3. (CHOOSE q \in Pollers : r \in Held(q)) = p
    BY <1>3, <2>2
  <2> QED BY <1>3, <2>1, <2>3 DEF Holder
<1> QED BY <1>1, <1>2, <1>3

LEMMA HolderIsNext == Inv' => HolderFacts'
BY HolderIs, PTL

\* A row is seen alike before and after a step that changes neither its status
\* nor who holds it.
LEMMA HolderSame ==
  ASSUME Inv, Inv', NEW r,
         r \in DOMAIN rows' <=> r \in DOMAIN rows,
         r \in DOMAIN rows => rows'[r].status = rows[r].status,
         \A q \in Pollers : r \in Held(q)' <=> r \in Held(q)
  PROVE  Holder(r)' = Holder(r)
<1>1. HolderFacts /\ HolderFacts'
  BY HolderIs, HolderIsNext
<1>2. CASE r \notin DOMAIN rows
  BY <1>1, <1>2 DEF HolderFacts
<1>3. CASE \E q \in Pollers : r \in Held(q)
  BY <1>1, <1>3 DEF HolderFacts
<1>4. CASE r \in DOMAIN rows /\ \A q \in Pollers : r \notin Held(q)
  <2>1. rows'[r].status = rows[r].status /\ r \in DOMAIN rows' /\ \A q \in Pollers : r \notin Held(q)'
    BY <1>4
  <2>2. rows[r].status \in {"pending", "processing", "delivered", "failed"}
    BY <1>1, <1>4 DEF HolderFacts
  <2>3. CASE rows[r].status = "pending"
    BY <1>1, <1>4, <2>1, <2>3 DEF HolderFacts
  <2>4. CASE rows[r].status = "processing"
    BY <1>1, <1>4, <2>1, <2>4 DEF HolderFacts
  <2>5. CASE rows[r].status \in {"delivered", "failed"}
    BY <1>1, <1>4, <2>1, <2>5 DEF HolderFacts
  <2> QED BY <2>2, <2>3, <2>4, <2>5
<1> QED BY <1>2, <1>3, <1>4

holders == [r \in Rows |-> Holder(r)]

\* A set of rows changes hands, or, without any row in it, nothing happens.
LEMMA HandedOn ==
  ASSUME NEW S \in SUBSET Rows, NEW from, NEW to,
         \A r \in S : Holder(r) = from /\ Holder(r)' = to,
         \A r \in Rows : r \notin S => Holder(r)' = Holder(r)
  PROVE  Pool!Become(S, from, to) \/ UNCHANGED holders
<1>1. CASE S = {}
  BY <1>1 DEF holders
<1>2. CASE S # {}
  BY <1>2 DEF Pool!Become
<1> QED BY <1>1, <1>2

LEMMA PoolSame ==
  ASSUME Inv, Inv', DOMAIN rows' = DOMAIN rows,
         \A r \in DOMAIN rows : rows'[r].status = rows[r].status,
         \A q \in Pollers : Held(q)' = Held(q)
  PROVE  UNCHANGED holders
<1>1. \A r \in Rows : Holder(r)' = Holder(r)
  BY HolderSame
<1> QED BY <1>1 DEF holders

LEMMA PoolEnqueue ==
  ASSUME Inv, Inv', NEW ev \in Events, NEW c \in Channels, EnqueueNotification(ev, c)
  PROVE  Pool!Next \/ UNCHANGED holders
<1>0. PICK n : n = Len(rows)
  OBVIOUS
<1>1. /\ n \in Nat /\ DOMAIN rows = 1..n /\ DOMAIN rows' = 1..(n + 1)
      /\ \A r \in 1..n : rows'[r] = rows[r]
      /\ rows'[n + 1].status = "pending"
      /\ \A q \in Pollers : Held(q)' = Held(q)
  <2> DEFINE row == [event |-> ev, channel |-> c, status |-> "pending",
                     attempts |-> 0, last |-> None, sends |-> 0, accepted |-> 0]
  <2>1. /\ rows' = Append(rows, row) /\ batch' = batch /\ rows \in Seq(Row) /\ row \in Row
        /\ row.status = "pending"
    BY DEF EnqueueNotification, poller, Inv, TypeOK, Row
  <2> HIDE DEF row
  <2>2. \A q \in Pollers : Held(q)' = Held(q)
    BY <2>1 DEF Held
  <2> QED BY <1>0, <2>1, <2>2, AppendProperties
<1>2. n + 1 \notin DOMAIN rows /\ n + 1 \in DOMAIN rows'
  BY <1>1
<1>3. Holder(n + 1) = "absent" /\ Holder(n + 1)' = "waiting"
  BY <1>1, <1>2, HolderIs, HolderIsNext DEF HolderFacts
<1>4. \A r \in Rows : r # n + 1 => Holder(r)' = Holder(r)
  <2> SUFFICES ASSUME NEW r \in Rows, r # n + 1 PROVE Holder(r)' = Holder(r)
    OBVIOUS
  <2>1. (r \in DOMAIN rows' <=> r \in DOMAIN rows) /\ (r \in DOMAIN rows => rows'[r] = rows[r])
    BY <1>1
  <2> QED BY <1>1, <2>1, HolderSame
<1>5. PICK S : S = {n + 1} \intersect Rows
  OBVIOUS
<1>6. Pool!Become(S, "absent", "waiting") \/ UNCHANGED holders
  <2>1. S \in SUBSET Rows
    BY <1>5
  <2>2. \A r \in S : Holder(r) = "absent" /\ Holder(r)' = "waiting"
    BY <1>3, <1>5
  <2>3. \A r \in Rows : r \notin S => Holder(r)' = Holder(r)
    BY <1>4, <1>5
  <2> QED BY <2>1, <2>2, <2>3, HandedOn
<1>7. ASSUME Pool!Become(S, "absent", "waiting") PROVE Pool!Next
  <2>1. n + 1 \in Rows /\ S = {n + 1}
    BY <1>5, <1>7 DEF Pool!Become
  <2>2. Pool!Add(n + 1)
    BY <1>7, <2>1 DEF Pool!Add
  <2> QED BY <2>1, <2>2 DEF Pool!Next
<1> QED BY <1>6, <1>7

\* What a poller takes, loses or settles is a set of rows of its own.
LEMMA PoolClaim ==
  ASSUME Inv, Inv', NEW p \in Pollers, ClaimPending(p)
  PROVE  Pool!Next \/ UNCHANGED holders
<1>1. /\ Claimable \in 1..Len(due) /\ DOMAIN due = 1..Len(due) /\ Len(due) \in Nat
      /\ Held(p)' = {due[i] : i \in 1..Claimable}
      /\ \A q \in Pollers : q # p => Held(q)' = Held(q)
      /\ DOMAIN rows' = DOMAIN rows
      /\ \A r \in DOMAIN rows : r \notin Held(p)' => rows'[r] = rows[r]
  BY Claimed
<1>2. PICK C : C = Held(p)'
  OBVIOUS
<1>3. \A r \in C : r \in DOMAIN rows /\ rows[r].status = "pending"
  <2> SUFFICES ASSUME NEW i \in 1..Claimable
               PROVE  due[i] \in DOMAIN rows /\ rows[due[i]].status = "pending"
    BY <1>1, <1>2
  <2>1. i \in DOMAIN due
    BY <1>1
  <2> QED BY <2>1, ElementOfSeq DEF Inv, TypeOK, DueOnce
<1>4. Held(p) = {}
  BY DEF ClaimPending, Inv, Working, Held
<1>5. PICK S : S = C \intersect Rows
  OBVIOUS
<1>6. \A r \in S : Holder(r) = "waiting" /\ Holder(r)' = p
  BY <1>2, <1>3, <1>5, HolderIs, HolderIsNext DEF HolderFacts
<1>7. \A r \in Rows : r \notin S => Holder(r)' = Holder(r)
  <2> SUFFICES ASSUME NEW r \in Rows, r \notin C PROVE Holder(r)' = Holder(r)
    BY <1>5
  <2>1. \A q \in Pollers : r \in Held(q)' <=> r \in Held(q)
    BY <1>1, <1>2, <1>4
  <2> QED BY <1>1, <1>2, <2>1, HolderSame
<1>8. Pool!Become(S, "waiting", p) \/ UNCHANGED holders
  BY <1>5, <1>6, <1>7, HandedOn
<1>9. Pool!Become(S, "waiting", p) => Pool!Next
  BY <1>5 DEF Pool!Next, Pool!Take
<1> QED BY <1>8, <1>9

LEMMA PoolMark ==
  ASSUME Inv, Inv', NEW p \in Pollers, MarkDelivered(p) \/ MarkRetry(p) \/ MarkError(p)
  PROVE  Pool!Next \/ UNCHANGED holders
<1>0. PICK r : r = Current(p).id
  OBVIOUS
<1>1. pc[p] = "mark" /\ Advance(p)
  BY DEF MarkDelivered, MarkRetry, MarkError
<1>2. r \in DOMAIN rows /\ rows[r] \in Row /\ r \in Held(p) /\ rows[r].status = "processing"
  BY <1>0, <1>1, CurrentRow
<1>3. /\ \A q \in Pollers : q # p => Held(q)' = Held(q)
      /\ Held(p)' = Held(p) \ {r}
  BY <1>0, <1>1, Advanced
<1>4. \A q \in Pollers : r \notin Held(q)'
  BY <1>2, <1>3 DEF Inv, Exclusive
<1>5. /\ DOMAIN rows' = DOMAIN rows
      /\ \A s \in DOMAIN rows : s # r => rows'[s] = rows[s]
  <2>1. CASE MarkDelivered(p)
    BY <1>0, <2>1 DEF MarkDelivered, Inv, TypeOK
  <2>2. CASE MarkRetry(p)
    BY <1>0, <2>2 DEF MarkRetry, Inv, TypeOK
  <2>3. CASE MarkError(p)
    BY <2>3 DEF MarkError
  <2> QED BY <2>1, <2>2, <2>3
<1>6. Holder(r) = p
  BY <1>2, HolderIs DEF HolderFacts
<1>7. r \in DOMAIN rows' /\ HolderFacts'
  BY <1>2, <1>5, HolderIsNext
<1>8. Holder(r)' \in {"waiting", "done", "lost"}
  <2>1. rows'[r].status \in {"pending", "processing", "delivered", "failed"}
    BY <1>7 DEF HolderFacts
  <2>2. CASE rows'[r].status = "pending"
    BY <1>7, <2>2 DEF HolderFacts
  <2>3. CASE rows'[r].status = "processing"
    BY <1>4, <1>7, <2>3 DEF HolderFacts
  <2>4. CASE rows'[r].status \in {"delivered", "failed"}
    BY <1>7, <2>4 DEF HolderFacts
  <2> QED BY <2>1, <2>2, <2>3, <2>4
<1>9. \A s \in Rows : s # r => Holder(s)' = Holder(s)
  <2> SUFFICES ASSUME NEW s \in Rows, s # r PROVE Holder(s)' = Holder(s)
    OBVIOUS
  <2>1. \A q \in Pollers : s \in Held(q)' <=> s \in Held(q)
    BY <1>3
  <2> QED BY <1>5, <2>1, HolderSame
<1>10. PICK S : S = {r} \intersect Rows
  OBVIOUS
<1>11. PICK to : to = Holder(r)'
  OBVIOUS
<1>12. Pool!Become(S, p, to) \/ UNCHANGED holders
  <2>1. S \in SUBSET Rows /\ \A s \in S : s = r
    BY <1>10
  <2>2. \A s \in S : Holder(s) = p /\ Holder(s)' = to
    BY <1>6, <1>11, <2>1
  <2>3. \A s \in Rows : s \notin S => Holder(s)' = Holder(s)
    BY <1>9, <1>10
  <2> QED BY <2>1, <2>2, <2>3, HandedOn
<1>13. ASSUME Pool!Become(S, p, to) PROVE Pool!Next
  <2>1. r \in Rows /\ S = {r}
    BY <1>10, <1>13 DEF Pool!Become
  <2>2. CASE to = "waiting"
    BY <1>13, <2>1, <2>2 DEF Pool!Next, Pool!Return
  <2>3. CASE to = "done"
    BY <1>13, <2>1, <2>3 DEF Pool!Next, Pool!Finish
  <2>4. CASE to = "lost"
    BY <1>10, <1>13, <2>4 DEF Pool!Next, Pool!Lose
  <2> QED BY <1>8, <1>11, <2>2, <2>3, <2>4
<1> QED BY <1>12, <1>13

\* A poller that dies loses what it held.
LEMMA PoolCrash ==
  ASSUME Inv, Inv', NEW p \in Pollers, Crash(p)
  PROVE  Pool!Next \/ UNCHANGED holders
<1>1. /\ Held(p)' = {} /\ rows' = rows
      /\ \A q \in Pollers : q # p => Held(q)' = Held(q)
  BY DEF Crash, Held, Inv, TypeOK
<1>2. PICK S : S = Held(p) \intersect Rows
  OBVIOUS
<1>3. \A r \in S : Holder(r) = p
  BY <1>2, HolderIs DEF HolderFacts
<1>4. \A r \in S : Holder(r)' = "lost"
  <2> SUFFICES ASSUME NEW r \in S PROVE Holder(r)' = "lost"
    OBVIOUS
  <2>1. r \in DOMAIN rows' /\ rows'[r].status = "processing"
    BY <1>1, <1>2 DEF Inv, Exclusive
  <2>2. \A q \in Pollers : r \notin Held(q)'
    BY <1>1, <1>2 DEF Inv, Exclusive
  <2> QED BY <2>1, <2>2, HolderIsNext DEF HolderFacts
<1>5. \A r \in Rows : r \notin S => Holder(r)' = Holder(r)
  <2> SUFFICES ASSUME NEW r \in Rows, r \notin S PROVE Holder(r)' = Holder(r)
    OBVIOUS
  <2>1. \A q \in Pollers : r \in Held(q)' <=> r \in Held(q)
    BY <1>1, <1>2
  <2> QED BY <1>1, <2>1, HolderSame
<1>6. Pool!Become(S, p, "lost") \/ UNCHANGED holders
  BY <1>2, <1>3, <1>4, <1>5, HandedOn
<1>7. Pool!Become(S, p, "lost") => Pool!Next
  BY <1>2 DEF Pool!Next, Pool!Lose
<1> QED BY <1>6, <1>7

LEMMA PoolSend ==
  ASSUME Inv, Inv', NEW p \in Pollers, NEW o \in Outcomes, Send(p, o)
  PROVE  UNCHANGED holders
<1> DEFINE r == Current(p).id
<1>1. r \in DOMAIN rows /\ rows[r] \in Row
  BY CurrentRow DEF Send
<1>2. rows' = [rows EXCEPT ![r] = Sent(rows[r], o)] /\ batch' = batch
  BY DEF Send
<1> HIDE DEF r
<1>3. Sent(rows[r], o).status = rows[r].status
  BY <1>1 DEF Sent, Row
<1>4. DOMAIN rows' = DOMAIN rows /\ \A s \in DOMAIN rows : rows'[s].status = rows[s].status
  BY <1>1, <1>2, <1>3 DEF Inv, TypeOK
<1>5. \A q \in Pollers : Held(q)' = Held(q)
  BY <1>2 DEF Held
<1> QED BY <1>4, <1>5, PoolSame

LEMMA PoolElsewhere ==
  ASSUME Inv, Inv',
         \/ \E c \in Channels : Withdraw(c) \/ \E b \in BOOLEAN : SetEnabled(c, b)
         \/ \E ev \in Events : ListChannels(ev) \/ Abandon(ev)
         \/ \E ev \in Events, c \in Channels : EnqueueError(ev, c)
         \/ \E r \in DOMAIN rows : ComesDue(r)
         \/ \E p \in Pollers : FetchChannel(p) \/ FetchError(p)
         \/ UNCHANGED vars
  PROVE  UNCHANGED holders
<1>1. UNCHANGED <<rows, batch>>
  BY DEF Withdraw, SetEnabled, ListChannels, Abandon, EnqueueError, ComesDue, FetchChannel,
         FetchError, poller, vars
<1>2. \A q \in Pollers : Held(q)' = Held(q)
  BY <1>1 DEF Held
<1> QED BY <1>1, <1>2, PoolSame

LEMMA PoolInit == Init => Pool!Init
<1> SUFFICES ASSUME Init PROVE Pool!Init
  OBVIOUS
<1>1. rows = <<>>
  BY DEF Init
<1>2. \A r : Holder(r) = "absent"
  BY <1>1 DEF Holder
<1> QED BY <1>2 DEF Pool!Init

LEMMA PoolNext == Inv /\ Inv' /\ [Next]_vars => Pool!Next \/ UNCHANGED holders
<1> SUFFICES ASSUME Inv, Inv', [Next]_vars PROVE Pool!Next \/ UNCHANGED holders
  OBVIOUS
<1> QED
  BY PoolElsewhere, PoolEnqueue, PoolClaim, PoolSend, PoolMark, PoolCrash
  DEF Next, Deliver, PollerFault

\* Every step of the outbox is a step of a durable queue or none of its business:
\* a notice is held by one poller at a time, a settled one is never taken again,
\* and what a poller that stopped held is lost.
THEOREM ImplementsPool == Spec => PoolSpec
<1>1. Inv /\ Inv' /\ [Next]_vars => [Pool!Next]_holders
  BY PoolNext
<1> QED BY <1>1, PoolInit, InvInit, InvNext, PTL DEF Spec, PoolSpec, Pool!Spec, holders

------------------------------------------------------------------------------
(* Attempts, calls and what receivers accepted. *)

\* Poller q has called Send for entry i and not yet recorded it.
SentNow(q, i) == i = 1 /\ pc[q] = "mark" /\ outcome[q] # "swallowed"

RowTally(row) ==
  /\ row.attempts <= MaxAttempts
  /\ row.status = "failed" <=> row.attempts = MaxAttempts
  /\ row.status \in {"pending", "failed"} => row.sends = row.attempts /\ row.accepted = 0
  /\ row.sends <= row.attempts + 1

\* The copy of attempts a poller took is still right, and the row has been sent
\* as often, once more while its result is not recorded; what was accepted is
\* waiting to be recorded as such.
EntryTally(e, row, sent, o) ==
  /\ e.attempts = row.attempts
  /\ row.sends = row.attempts + IF sent THEN 1 ELSE 0
  /\ row.accepted > 0 => sent /\ o = "accepted"

RowsTally == \A r \in DOMAIN rows : RowTally(rows[r])

EntriesTally ==
  \A q \in Pollers : \A i \in DOMAIN batch[q] :
    EntryTally(batch[q][i], rows[batch[q][i].id], SentNow(q, i), outcome[q])

CountInv == Inv /\ RowsTally /\ EntriesTally

LEMMA CountInit == Init => CountInv
<1> SUFFICES ASSUME Init PROVE CountInv
  OBVIOUS
<1>1. rows = <<>> /\ \A q \in Pollers : batch[q] = <<>>
  BY DEF Init
<1>2. RowsTally /\ EntriesTally
  BY <1>1 DEF RowsTally, EntriesTally
<1> QED BY <1>2, InvInit DEF CountInv

\* The row an entry stands for.
LEMMA EntryRow ==
  ASSUME Inv, NEW q \in Pollers, NEW i \in DOMAIN batch[q]
  PROVE  /\ batch[q] \in Seq(Entry) /\ batch[q][i] \in Entry /\ i \in Nat \ {0}
         /\ batch[q][i].id \in Held(q)
         /\ batch[q][i].id \in DOMAIN rows
         /\ rows[batch[q][i].id] \in Row
         /\ rows[batch[q][i].id].status = "processing"
<1>1. batch[q] \in Seq(Entry)
  BY DEF Inv, TypeOK
<1>2. batch[q][i] \in Entry /\ i \in Nat \ {0}
  BY <1>1, ElementOfSeq
<1>3. batch[q][i].id \in Held(q)
  BY DEF Held
<1>4. batch[q][i].id \in DOMAIN rows /\ rows[batch[q][i].id].status = "processing"
  BY <1>3 DEF Inv, Exclusive
<1>5. rows[batch[q][i].id] \in Row
  BY <1>4, ElementOfSeq DEF Inv, TypeOK
<1> QED BY <1>1, <1>2, <1>3, <1>4, <1>5

\* Steps that touch neither the rows nor what has been sent.
LEMMA CountAside ==
  ASSUME CountInv, UNCHANGED <<rows, batch>>,
         \A q \in Pollers : \A i \in DOMAIN batch[q] :
           /\ SentNow(q, i)' <=> SentNow(q, i)
           /\ SentNow(q, i) => outcome'[q] = outcome[q]
  PROVE  RowsTally' /\ EntriesTally'
<1>1. RowsTally'
  BY DEF CountInv, RowsTally
<1>2. ASSUME NEW q \in Pollers, NEW i \in DOMAIN batch[q]
      PROVE  EntryTally(batch[q][i], rows[batch[q][i].id], SentNow(q, i)', outcome'[q])
  <2>1. EntryTally(batch[q][i], rows[batch[q][i].id], SentNow(q, i), outcome[q])
    BY DEF CountInv, EntriesTally
  <2>2. CASE SentNow(q, i)
    BY <2>1, <2>2 DEF EntryTally
  <2>3. CASE ~SentNow(q, i)
    BY <2>1, <2>3 DEF EntryTally
  <2> QED BY <2>2, <2>3
<1>3. EntriesTally'
  BY <1>2 DEF EntriesTally
<1> QED BY <1>1, <1>3

\* Entries other pollers hold, when only rows of p change.
LEMMA OthersKeep ==
  ASSUME CountInv, NEW p \in Pollers, NEW q \in Pollers, q # p,
         batch'[q] = batch[q], pc'[q] = pc[q], outcome'[q] = outcome[q],
         \A r \in DOMAIN rows : r \notin Held(p) => rows'[r] = rows[r],
         NEW i \in DOMAIN batch[q]
  PROVE  EntryTally(batch[q][i], rows'[batch[q][i].id], SentNow(q, i)', outcome'[q])
<1>1. batch[q][i].id \in DOMAIN rows /\ batch[q][i].id \in Held(q)
  BY EntryRow DEF CountInv
<1>2. batch[q][i].id \notin Held(p)
  BY <1>1 DEF CountInv, Inv, Exclusive
<1>3. EntryTally(batch[q][i], rows[batch[q][i].id], SentNow(q, i), outcome[q])
  BY DEF CountInv, EntriesTally
<1>4. SentNow(q, i)' <=> SentNow(q, i)
  BY DEF SentNow
<1> QED BY <1>1, <1>2, <1>3, <1>4 DEF EntryTally

LEMMA CountSend ==
  ASSUME CountInv, NEW p \in Pollers, NEW o \in Outcomes, Send(p, o)
  PROVE  /\ RowsTally' /\ EntriesTally'
         /\ \A r \in DOMAIN rows : rows[r].accepted > 0 => rows'[r].sends = rows[r].sends
<1> DEFINE r == Current(p).id
<1>1. /\ Inv /\ pc[p] = "send" /\ o \in AllOutcomes /\ o # "swallowed"
      /\ pc' = [pc EXCEPT ![p] = "mark"] /\ outcome' = [outcome EXCEPT ![p] = o]
      /\ rows' = [rows EXCEPT ![r] = Sent(rows[r], o)] /\ batch' = batch
  BY OutcomeAssumption DEF Send, Record, CountInv, AllOutcomes
<1>2. /\ r \in DOMAIN rows /\ rows[r] \in Row /\ r \in Held(p)
      /\ rows[r].status = "processing" /\ r = batch[p][1].id /\ 1 \in DOMAIN batch[p]
  BY <1>1, CurrentRow
<1> HIDE DEF r
<1>3. /\ rows[r].attempts \in Nat /\ rows[r].accepted \in Nat /\ rows[r].sends = rows[r].attempts
      /\ ~(rows[r].accepted > 0)
      /\ batch[p][1].attempts = rows[r].attempts
  <2>1. EntryTally(batch[p][1], rows[r], SentNow(p, 1), outcome[p])
    BY <1>2 DEF CountInv, EntriesTally
  <2>2. ~SentNow(p, 1)
    BY <1>1 DEF SentNow
  <2>3. rows[r].attempts \in Nat /\ rows[r].accepted \in Nat
    BY <1>2 DEF Row
  <2> QED BY <2>1, <2>2, <2>3 DEF EntryTally
<1>4. /\ DOMAIN rows' = DOMAIN rows /\ rows'[r] = Sent(rows[r], o)
      /\ \A s \in DOMAIN rows : s # r => rows'[s] = rows[s]
  BY <1>1, <1>2 DEF Inv, TypeOK
<1>5. /\ rows'[r].attempts = rows[r].attempts /\ rows'[r].status = "processing"
      /\ rows'[r].sends = rows[r].attempts + 1
      /\ o # "accepted" => ~(rows'[r].accepted > 0)
  <2>1. /\ Sent(rows[r], o).attempts = rows[r].attempts
        /\ Sent(rows[r], o).status = rows[r].status
        /\ Sent(rows[r], o).sends = rows[r].sends + 1
        /\ o # "accepted" => Sent(rows[r], o).accepted = rows[r].accepted + 0
    BY <1>2 DEF Sent, Row
  <2> QED BY <1>2, <1>3, <1>4, <2>1
<1>6. RowsTally'
  <2>1. RowTally(rows[r])
    BY <1>2 DEF CountInv, RowsTally
  <2>2. RowTally(rows'[r])
    BY <1>2, <1>3, <1>5, <2>1 DEF RowTally
  <2> QED BY <1>4, <2>2 DEF CountInv, RowsTally
<1>7. ASSUME NEW q \in Pollers, NEW i \in DOMAIN batch[q]
      PROVE  EntryTally(batch[q][i], rows'[batch[q][i].id], SentNow(q, i)', outcome'[q])
  <2>1. CASE q # p
    <3>1. pc'[q] = pc[q] /\ outcome'[q] = outcome[q]
      BY <1>1, <2>1 DEF Inv, TypeOK
    <3> QED BY <1>1, <1>2, <1>4, <2>1, <3>1, OthersKeep
  <2>2. CASE q = p /\ i = 1
    <3>1. SentNow(p, 1)' /\ outcome'[p] = o
      BY <1>1 DEF SentNow, Inv, TypeOK
    <3> QED BY <1>2, <1>3, <1>5, <2>2, <3>1 DEF EntryTally
  <2>3. CASE q = p /\ i # 1
    <3>1. batch[p][i].id # r /\ batch[p][i].id \in DOMAIN rows
      BY <1>1, <1>2, <2>3, EntryRow DEF Inv, Exclusive
    <3>2. ~SentNow(p, i) /\ ~SentNow(p, i)'
      BY <2>3 DEF SentNow
    <3>3. EntryTally(batch[p][i], rows[batch[p][i].id], SentNow(p, i), outcome[p])
      BY <2>3 DEF CountInv, EntriesTally
    <3> QED BY <1>4, <2>3, <3>1, <3>2, <3>3 DEF EntryTally
  <2> QED BY <2>1, <2>2, <2>3
<1>8. EntriesTally'
  BY <1>1, <1>7 DEF EntriesTally
<1> QED BY <1>3, <1>4, <1>6, <1>8

\* The entries left after Advance: each was the next one's successor.
LEMMA Rest ==
  ASSUME Inv, NEW p \in Pollers, pc[p] = "mark", Advance(p), NEW i \in DOMAIN batch'[p]
  PROVE  /\ i \in Nat \ {0} /\ i + 1 \in DOMAIN batch[p] /\ batch'[p][i] = batch[p][i + 1]
         /\ batch[p][i + 1].id # Current(p).id
<1>1. /\ batch[p] \in Seq(Entry) /\ batch[p] # <<>> /\ Current(p) = batch[p][1]
  BY CurrentRow
<1>2. batch'[p] = Tail(batch[p])
  BY DEF Advance, Inv, TypeOK
<1>3. /\ Tail(batch[p]) \in Seq(Entry)
      /\ Len(Tail(batch[p])) = Len(batch[p]) - 1
      /\ \A j \in 1..(Len(batch[p]) - 1) : Tail(batch[p])[j] = batch[p][j + 1]
  BY <1>1, HeadTailProperties
<1>4. Len(batch[p]) \in Nat \ {0}
  BY <1>1, EmptySeq
<1>5. i \in 1..(Len(batch[p]) - 1) /\ DOMAIN batch[p] = 1..Len(batch[p])
  BY <1>1, <1>2, <1>3, <1>4
<1>6. i \in Nat \ {0} /\ i + 1 \in DOMAIN batch[p] /\ 1 \in DOMAIN batch[p] /\ i + 1 # 1
  BY <1>4, <1>5
<1> QED BY <1>1, <1>2, <1>3, <1>5, <1>6 DEF Inv, Exclusive

\* Recording a result: the row's own tally is given, the rest follows.
LEMMA CountAdvance ==
  ASSUME CountInv, NEW p \in Pollers, pc[p] = "mark", Advance(p),
         DOMAIN rows' = DOMAIN rows, RowTally(rows'[Current(p).id]),
         \A r \in DOMAIN rows : r # Current(p).id => rows'[r] = rows[r]
  PROVE  RowsTally' /\ EntriesTally'
<1>1. Inv /\ Current(p).id \in Held(p)
  BY CurrentRow DEF CountInv
<1>2. RowsTally'
  BY DEF CountInv, RowsTally
<1>3. ASSUME NEW q \in Pollers, NEW i \in DOMAIN batch'[q]
      PROVE  EntryTally(batch'[q][i], rows'[batch'[q][i].id], SentNow(q, i)', outcome'[q])
  <2>1. CASE q # p
    <3>1. batch'[q] = batch[q] /\ pc'[q] = pc[q] /\ outcome'[q] = outcome[q]
      BY <1>1, <2>1 DEF Advance, Inv, TypeOK
    <3> QED BY <1>1, <2>1, <3>1, OthersKeep
  <2>2. CASE q = p
    <3>1. /\ i \in Nat \ {0} /\ i + 1 \in DOMAIN batch[p] /\ batch'[p][i] = batch[p][i + 1]
          /\ batch[p][i + 1].id # Current(p).id
      BY <1>1, <2>2, Rest
    <3>2. batch[p][i + 1].id \in DOMAIN rows
      BY <1>1, <3>1, EntryRow
    <3>3. ~SentNow(p, i + 1) /\ ~SentNow(p, i)'
      <4>1. pc'[p] # "mark"
        BY <1>1 DEF Advance, Inv, TypeOK
      <4> QED BY <3>1, <4>1 DEF SentNow
    <3>4. EntryTally(batch[p][i + 1], rows[batch[p][i + 1].id], SentNow(p, i + 1), outcome[p])
      BY <3>1 DEF CountInv, EntriesTally
    <3> QED BY <2>2, <3>1, <3>2, <3>3, <3>4 DEF EntryTally
  <2> QED BY <2>1, <2>2
<1>4. EntriesTally'
  BY <1>3 DEF EntriesTally
<1> QED BY <1>2, <1>4

LEMMA CountMark ==
  ASSUME CountInv, NEW p \in Pollers, MarkDelivered(p) \/ MarkRetry(p) \/ MarkError(p)
  PROVE  /\ RowsTally' /\ EntriesTally'
         /\ \A r \in DOMAIN rows : rows'[r].sends = rows[r].sends
<1> DEFINE r == Current(p).id
<1>1. Inv /\ pc[p] = "mark" /\ Advance(p)
  BY DEF MarkDelivered, MarkRetry, MarkError, CountInv
<1>2. /\ r \in DOMAIN rows /\ rows[r] \in Row /\ rows[r].status = "processing"
      /\ r = batch[p][1].id /\ 1 \in DOMAIN batch[p] /\ Current(p) = batch[p][1]
  BY <1>1, CurrentRow
<1> DEFINE e == Current(p)
<1>3. RowTally(rows[r]) /\ EntryTally(e, rows[r], SentNow(p, 1), outcome[p])
  BY <1>2 DEF CountInv, RowsTally, EntriesTally
<1>4. /\ rows[r].attempts \in Nat /\ rows[r].sends \in Nat /\ rows[r].accepted \in Nat
      /\ MaxAttempts \in Nat /\ rows[r].attempts < MaxAttempts
  <2>1. /\ rows[r].attempts \in Nat /\ rows[r].sends \in Nat /\ rows[r].accepted \in Nat
        /\ MaxAttempts \in Nat
    BY <1>2, OutboxAssumption DEF Row
  <2>2. rows[r].attempts # MaxAttempts /\ rows[r].attempts <= MaxAttempts
    BY <1>2, <1>3 DEF RowTally
  <2> QED BY <2>1, <2>2
<1>5. /\ DOMAIN rows' = DOMAIN rows
      /\ \A s \in DOMAIN rows : s # r => rows'[s] = rows[s]
      /\ RowTally(rows'[r]) /\ rows'[r].sends = rows[r].sends
  <2>1. CASE MarkDelivered(p)
    <3>1. rows' = [rows EXCEPT ![r] = [rows[r] EXCEPT !.status = "delivered"]]
      BY <2>1 DEF MarkDelivered
    <3>2. rows'[r] = [rows[r] EXCEPT !.status = "delivered"]
      BY <1>1, <1>2, <3>1 DEF Inv, TypeOK
    <3> HIDE DEF r
    <3>3. /\ rows'[r].status = "delivered" /\ rows'[r].attempts = rows[r].attempts
          /\ rows'[r].sends = rows[r].sends
      BY <1>2, <3>2 DEF Row
    <3>4. RowTally(rows'[r])
      BY <1>3, <1>4, <3>3 DEF RowTally
    <3> QED BY <1>2, <3>1, <3>3, <3>4
  <2>2. CASE MarkRetry(p)
    <3> DEFINE n == e.attempts + 1
               status == IF n >= MaxAttempts THEN "failed" ELSE "pending"
               row == [rows[r] EXCEPT !.attempts = n, !.last = outcome[p], !.status = status]
    <3>1. rows' = [rows EXCEPT ![r] = row] /\ outcome[p] \in Undelivered
      BY <2>2 DEF MarkRetry
    <3>2. rows'[r] = row
      BY <1>1, <1>2, <3>1 DEF Inv, TypeOK
    <3> HIDE DEF r, e, n, status
    <3>3. rows'[r].status = status /\ rows'[r].attempts = n
          /\ rows'[r].sends = rows[r].sends /\ rows'[r].accepted = rows[r].accepted
      BY <1>2, <3>2 DEF Row
    <3>4. SentNow(p, 1) /\ outcome[p] # "accepted"
      BY <1>1, <3>1 DEF SentNow, Undelivered, AllOutcomes
    <3>5. n = rows[r].attempts + 1 /\ rows[r].sends = n /\ rows[r].accepted = 0
      BY <1>3, <1>4, <3>4 DEF EntryTally, n
    <3>6. RowTally(rows'[r])
      BY <1>4, <3>3, <3>5 DEF RowTally, status
    <3> QED BY <1>2, <3>1, <3>3, <3>6
  <2>3. CASE MarkError(p)
    BY <1>3, <2>3 DEF MarkError
  <2> QED BY <2>1, <2>2, <2>3, <1>1 DEF MarkDelivered
<1> HIDE DEF e
<1>6. RowsTally' /\ EntriesTally'
  BY <1>1, <1>5, CountAdvance
<1>7. \A s \in DOMAIN rows : rows'[s].sends = rows[s].sends
  BY <1>5
<1> QED BY <1>6, <1>7

\* The claimed rows were pending: as many attempts as sends, nothing accepted.
LEMMA CountClaim ==
  ASSUME CountInv, NEW p \in Pollers, ClaimPending(p)
  PROVE  /\ RowsTally' /\ EntriesTally'
         /\ \A r \in DOMAIN rows : rows'[r].sends = rows[r].sends
<1>1. /\ Inv /\ pc[p] = "idle" /\ Claimable \in 1..Len(due) /\ DOMAIN due = 1..Len(due) /\ Len(due) \in Nat
      /\ Held(p)' = {due[i] : i \in 1..Claimable}
      /\ \A q \in Pollers : q # p => batch'[q] = batch[q] /\ Held(q)' = Held(q)
      /\ DOMAIN rows' = DOMAIN rows
      /\ \A r \in DOMAIN rows :
           IF r \in Held(p)' THEN rows'[r] = [rows[r] EXCEPT !.status = "processing"]
           ELSE rows'[r] = rows[r]
  BY Claimed DEF ClaimPending, CountInv
<1>2. /\ batch' = [batch EXCEPT ![p] = [i \in 1..Claimable |-> [id |-> due[i], attempts |-> rows[due[i]].attempts]]]
      /\ pc' = [pc EXCEPT ![p] = "fetch"] /\ outcome' = outcome
  BY DEF ClaimPending
<1>3. ASSUME NEW r \in DOMAIN rows
      PROVE  /\ rows[r] \in Row
             /\ rows'[r].attempts = rows[r].attempts /\ rows'[r].sends = rows[r].sends
             /\ rows'[r].accepted = rows[r].accepted
             /\ rows'[r].status = IF r \in Held(p)' THEN "processing" ELSE rows[r].status
  <2>1. rows[r] \in Row
    BY <1>1, ElementOfSeq DEF Inv, TypeOK
  <2>2. CASE r \in Held(p)'
    <3>1. rows'[r] = [rows[r] EXCEPT !.status = "processing"]
      BY <1>1, <2>2
    <3> QED BY <2>1, <2>2, <3>1 DEF Row
  <2>3. CASE r \notin Held(p)'
    BY <1>1, <2>1, <2>3
  <2> QED BY <2>2, <2>3
<1>4. ASSUME NEW i \in 1..Claimable
      PROVE  /\ due[i] \in DOMAIN rows /\ due[i] \in Held(p)' /\ rows[due[i]].status = "pending"
  <2>1. i \in DOMAIN due
    BY <1>1
  <2>2. due[i] \in DOMAIN rows
    BY <1>1, <2>1, ElementOfSeq DEF Inv, TypeOK
  <2> QED BY <1>1, <2>1, <2>2 DEF Inv, DueOnce
<1>5. RowsTally'
  <2> SUFFICES ASSUME NEW r \in DOMAIN rows PROVE RowTally(rows'[r])
    BY <1>1 DEF RowsTally
  <2>1. RowTally(rows[r])
    BY DEF CountInv, RowsTally
  <2>2. r \in Held(p)' => rows[r].status = "pending"
    BY <1>1, <1>4
  <2> QED BY <1>3, <2>1, <2>2 DEF RowTally
<1>6. ASSUME NEW q \in Pollers, NEW i \in DOMAIN batch'[q]
      PROVE  EntryTally(batch'[q][i], rows'[batch'[q][i].id], SentNow(q, i)', outcome'[q])
  <2>1. CASE q # p
    <3>1. batch'[q] = batch[q] /\ pc'[q] = pc[q]
      BY <1>1, <1>2, <2>1 DEF Inv, TypeOK
    <3>2. batch[q][i].id \in DOMAIN rows /\ EntryTally(batch[q][i], rows[batch[q][i].id], SentNow(q, i), outcome[q])
      BY <1>1, <3>1, EntryRow DEF CountInv, EntriesTally
    <3>3. SentNow(q, i)' <=> SentNow(q, i)
      BY <1>2, <3>1 DEF SentNow
    <3> QED BY <1>2, <1>3, <3>1, <3>2, <3>3 DEF EntryTally
  <2>2. CASE q = p
    <3>1. batch'[p] = [j \in 1..Claimable |-> [id |-> due[j], attempts |-> rows[due[j]].attempts]]
      BY <1>1, <1>2 DEF Inv, TypeOK
    <3>2. i \in 1..Claimable /\ batch'[p][i].id = due[i] /\ batch'[p][i].attempts = rows[due[i]].attempts
      BY <2>2, <3>1
    <3>3. ~SentNow(p, i)'
      BY <1>1, <1>2 DEF SentNow, Inv, TypeOK
    <3>4. RowTally(rows[due[i]]) /\ due[i] \in DOMAIN rows /\ rows[due[i]].status = "pending"
      BY <1>4, <3>2 DEF CountInv, RowsTally
    <3>5. /\ rows'[due[i]].attempts = rows[due[i]].attempts /\ rows'[due[i]].sends = rows[due[i]].sends
          /\ rows'[due[i]].accepted = rows[due[i]].accepted /\ rows[due[i]].attempts \in Nat
      BY <1>3, <3>4 DEF Row
    <3> QED BY <2>2, <3>2, <3>3, <3>4, <3>5 DEF EntryTally, RowTally
  <2> QED BY <2>1, <2>2
<1>7. EntriesTally'
  BY <1>6 DEF EntriesTally
<1> QED BY <1>3, <1>5, <1>7

LEMMA CountEnqueue ==
  ASSUME CountInv, NEW ev \in Events, NEW c \in Channels, EnqueueNotification(ev, c)
  PROVE  /\ RowsTally' /\ EntriesTally'
         /\ \A r \in DOMAIN rows : rows'[r] = rows[r]
<1> DEFINE row == [event |-> ev, channel |-> c, status |-> "pending",
                   attempts |-> 0, last |-> None, sends |-> 0, accepted |-> 0]
           n == Len(rows)
<1>1. /\ rows' = Append(rows, row) /\ batch' = batch /\ pc' = pc /\ outcome' = outcome
      /\ rows \in Seq(Row) /\ n \in Nat /\ DOMAIN rows = 1..n
  BY DEF EnqueueNotification, poller, CountInv, Inv, TypeOK
<1>2. row \in Row /\ RowTally(row)
  BY OutboxAssumption DEF Row, RowTally
<1> HIDE DEF row
<1>3. /\ DOMAIN rows' = 1..(n + 1) /\ rows'[n + 1] = row
      /\ \A r \in 1..n : rows'[r] = rows[r]
  BY <1>1, <1>2, AppendProperties
<1>4. RowsTally'
  <2> SUFFICES ASSUME NEW r \in 1..(n + 1) PROVE RowTally(rows'[r])
    BY <1>3 DEF RowsTally
  <2>1. CASE r = n + 1
    BY <1>2, <1>3, <2>1
  <2>2. CASE r \in 1..n
    BY <1>1, <1>3, <2>2 DEF CountInv, RowsTally
  <2> QED BY <1>1, <2>1, <2>2
<1>5. EntriesTally'
  <2> SUFFICES ASSUME NEW q \in Pollers, NEW i \in DOMAIN batch[q]
               PROVE  EntryTally(batch[q][i], rows'[batch[q][i].id], SentNow(q, i)', outcome'[q])
    BY <1>1 DEF EntriesTally
  <2>1. batch[q][i].id \in 1..n
    BY <1>1, EntryRow DEF CountInv
  <2>2. EntryTally(batch[q][i], rows[batch[q][i].id], SentNow(q, i), outcome[q])
    BY DEF CountInv, EntriesTally
  <2>3. SentNow(q, i)' <=> SentNow(q, i)
    BY <1>1 DEF SentNow
  <2> QED BY <1>1, <1>3, <2>1, <2>2, <2>3 DEF EntryTally
<1> QED BY <1>1, <1>3, <1>4, <1>5

LEMMA CountFetch ==
  ASSUME CountInv, NEW p \in Pollers, FetchChannel(p) \/ FetchError(p)
  PROVE  RowsTally' /\ EntriesTally' /\ rows' = rows
<1>1. /\ UNCHANGED <<rows, batch>> /\ pc[p] = "fetch"
      /\ pc'[p] # "mark" \/ outcome'[p] = "swallowed"
      /\ \A q \in Pollers : q # p => pc'[q] = pc[q] /\ outcome'[q] = outcome[q]
  BY DEF FetchChannel, FetchError, Record, CountInv, Inv, TypeOK
<1>2. \A q \in Pollers : \A i \in DOMAIN batch[q] :
        /\ SentNow(q, i)' <=> SentNow(q, i)
        /\ SentNow(q, i) => outcome'[q] = outcome[q]
  BY <1>1 DEF SentNow
<1> QED BY <1>1, <1>2, CountAside

LEMMA CountCrash ==
  ASSUME CountInv, NEW p \in Pollers, Crash(p)
  PROVE  RowsTally' /\ EntriesTally' /\ rows' = rows
<1>1. /\ rows' = rows /\ batch'[p] = <<>> /\ Inv
      /\ \A q \in Pollers : q # p => batch'[q] = batch[q] /\ pc'[q] = pc[q] /\ outcome'[q] = outcome[q]
  BY DEF Crash, CountInv, Inv, TypeOK
<1>2. RowsTally'
  BY <1>1 DEF CountInv, RowsTally
<1>3. ASSUME NEW q \in Pollers, NEW i \in DOMAIN batch'[q]
      PROVE  EntryTally(batch'[q][i], rows'[batch'[q][i].id], SentNow(q, i)', outcome'[q])
  <2>1. q # p
    BY <1>1
  <2> QED BY <1>1, <2>1, OthersKeep
<1>4. EntriesTally'
  BY <1>3 DEF EntriesTally
<1> QED BY <1>1, <1>2, <1>4

LEMMA CountElsewhere ==
  ASSUME CountInv, \/ \E c \in Channels : Withdraw(c) \/ \E b \in BOOLEAN : SetEnabled(c, b)
                   \/ \E ev \in Events : ListChannels(ev) \/ Abandon(ev)
                   \/ \E ev \in Events, c \in Channels : EnqueueError(ev, c)
                   \/ \E r \in DOMAIN rows : ComesDue(r)
                   \/ UNCHANGED vars
  PROVE  RowsTally' /\ EntriesTally' /\ rows' = rows
<1>1. UNCHANGED <<rows, batch, pc, outcome>>
  BY DEF Withdraw, SetEnabled, ListChannels, Abandon, EnqueueError, ComesDue, poller, vars
<1>2. \A q \in Pollers : \A i \in DOMAIN batch[q] : SentNow(q, i)' <=> SentNow(q, i)
  BY <1>1 DEF SentNow
<1> QED BY <1>1, <1>2, CountAside

LEMMA CountNext ==
  CountInv /\ [Next]_vars =>
    CountInv' /\ \A r \in DOMAIN rows : rows[r].accepted > 0 => rows'[r].sends = rows[r].sends
<1> SUFFICES ASSUME CountInv, [Next]_vars
             PROVE  /\ RowsTally' /\ EntriesTally'
                    /\ \A r \in DOMAIN rows : rows[r].accepted > 0 => rows'[r].sends = rows[r].sends
  BY InvNext DEF CountInv
<1> QED
  BY CountElsewhere, CountEnqueue, CountClaim, CountFetch, CountSend, CountMark, CountCrash
  DEF Next, Deliver, PollerFault

\* attempts, written from a copy made at claim time, is the number of calls made,
\* and a row is given up after exactly MaxAttempts of them (outbox.go, deliver;
\* MarkOutboxRetry).
THEOREM AttemptsCounted == Spec => []AttemptsAreSends
<1>1. CountInv => AttemptsAreSends
  <2> SUFFICES ASSUME CountInv, NEW r \in DOMAIN rows
               PROVE  /\ rows[r].sends <= MaxAttempts
                      /\ rows[r].status \in {"pending", "failed"} => rows[r].sends = rows[r].attempts
                      /\ rows[r].status = "failed" <=> rows[r].attempts = MaxAttempts
    BY DEF AttemptsAreSends
  <2>1. RowTally(rows[r]) /\ rows[r] \in Row
    BY ElementOfSeq DEF CountInv, RowsTally, Inv, TypeOK
  <2>2. rows[r].attempts \in Nat /\ rows[r].sends \in Nat /\ MaxAttempts \in Nat
    BY <2>1, OutboxAssumption DEF Row
  <2> QED BY <2>1, <2>2 DEF RowTally
<1> QED BY <1>1, CountInit, CountNext, PTL DEF Spec

\* A notice its receiver has accepted is never sent to it again, whatever
\* crashes or fails before that is recorded.
THEOREM AcceptedOnce == Spec => AcceptedIsLast
<1>1. CountInv /\ [Next]_vars =>
        [\A r \in DOMAIN rows : rows[r].accepted > 0 => rows'[r].sends = rows[r].sends]_vars
  BY CountNext
<1> QED BY <1>1, CountInit, CountNext, PTL DEF Spec, AcceptedIsLast

------------------------------------------------------------------------------
(* A delivered notice has reached its receiver, while channels can be read. *)

RecordTrue(q) ==
  pc[q] = "mark" =>
    /\ outcome[q] = "accepted" => rows[Current(q).id].accepted > 0
    /\ outcome[q] = "swallowed" => channels[rows[Current(q).id].channel] = "gone"

ReceivedInv == DeliveredIsReceived /\ \A q \in Pollers : RecordTrue(q)

\* Receipts and the loss of a channel are for good.
Grows ==
  /\ \A r \in DOMAIN rows :
       /\ r \in DOMAIN rows' /\ rows'[r].channel = rows[r].channel
       /\ rows[r].accepted > 0 => rows'[r].accepted > 0
  /\ \A c \in Channels : channels[c] = "gone" => channels'[c] = "gone"

LEMMA RecordKept ==
  ASSUME Inv, Grows, ReceivedInv, NEW q \in Pollers,
         batch'[q] = batch[q], pc'[q] = pc[q], outcome'[q] = outcome[q]
  PROVE  RecordTrue(q)'
<1> SUFFICES ASSUME pc[q] = "mark"
             PROVE  /\ outcome[q] = "accepted" => rows'[Current(q).id].accepted > 0
                    /\ outcome[q] = "swallowed" => channels'[rows'[Current(q).id].channel] = "gone"
  BY DEF RecordTrue, Current
<1>1. Current(q).id \in DOMAIN rows /\ rows[Current(q).id] \in Row
  BY CurrentRow
<1>2. rows[Current(q).id].channel \in Channels
  BY <1>1 DEF Row
<1> QED BY <1>1, <1>2 DEF Grows, ReceivedInv, RecordTrue

\* Rows that are not marked delivered in this step.
LEMMA DeliveredKept ==
  ASSUME Inv, Grows, ReceivedInv, NEW r \in DOMAIN rows, rows[r].status = "delivered"
  PROVE  rows'[r].accepted > 0 \/ channels'[rows'[r].channel] = "gone"
<1>1. rows[r] \in Row
  BY ElementOfSeq DEF Inv, TypeOK
<1>2. rows[r].channel \in Channels
  BY <1>1 DEF Row
<1> QED BY <1>2 DEF Grows, ReceivedInv, DeliveredIsReceived

\* Steps that leave the rows and their pollers alone.
LEMMA ReceivedAside ==
  ASSUME Inv, ReceivedInv,
         \/ \E c \in Channels : Withdraw(c) \/ \E b \in BOOLEAN : SetEnabled(c, b)
         \/ \E ev \in Events : ListChannels(ev) \/ Abandon(ev)
         \/ \E ev \in Events, c \in Channels : EnqueueError(ev, c)
         \/ \E r \in DOMAIN rows : ComesDue(r)
         \/ UNCHANGED vars
  PROVE  ReceivedInv'
<1>1. UNCHANGED <<rows, batch, pc, outcome>>
  BY DEF Withdraw, SetEnabled, ListChannels, Abandon, EnqueueError, ComesDue, poller, vars
<1>2. \A c \in Channels : channels[c] = "gone" => channels'[c] = "gone"
  BY DEF Withdraw, SetEnabled, ListChannels, Abandon, EnqueueError, ComesDue, vars, Inv, TypeOK
<1>3. Grows
  BY <1>1, <1>2 DEF Grows
<1>4. \A q \in Pollers : RecordTrue(q)'
  BY <1>1, <1>3, RecordKept
<1>5. DeliveredIsReceived'
  BY <1>1, <1>3, DeliveredKept DEF DeliveredIsReceived
<1> QED BY <1>4, <1>5 DEF ReceivedInv

LEMMA ReceivedEnqueue ==
  ASSUME Inv, Inv', ReceivedInv, NEW ev \in Events, NEW c \in Channels, EnqueueNotification(ev, c)
  PROVE  ReceivedInv'
<1>0. PICK n : n = Len(rows)
  OBVIOUS
<1> DEFINE row == [event |-> ev, channel |-> c, status |-> "pending",
                   attempts |-> 0, last |-> None, sends |-> 0, accepted |-> 0]
<1>1. /\ rows' = Append(rows, row) /\ batch' = batch /\ pc' = pc /\ outcome' = outcome
      /\ channels' = channels /\ rows \in Seq(Row) /\ row \in Row /\ row.status = "pending"
  BY DEF EnqueueNotification, poller, Inv, TypeOK, Row
<1> HIDE DEF row
<1>2. /\ n \in Nat /\ DOMAIN rows = 1..n /\ DOMAIN rows' = 1..(n + 1)
      /\ rows'[n + 1].status = "pending" /\ \A r \in 1..n : rows'[r] = rows[r]
  BY <1>0, <1>1, AppendProperties
<1>3. Grows
  BY <1>1, <1>2 DEF Grows
<1>4. \A q \in Pollers : RecordTrue(q)'
  BY <1>1, <1>3, RecordKept
<1>5. DeliveredIsReceived'
  <2> SUFFICES ASSUME NEW r \in DOMAIN rows', rows'[r].status = "delivered"
               PROVE  rows'[r].accepted > 0 \/ channels'[rows'[r].channel] = "gone"
    BY DEF DeliveredIsReceived
  <2>1. r \in DOMAIN rows /\ rows[r].status = "delivered"
    BY <1>2
  <2> QED BY <1>3, <2>1, DeliveredKept
<1> QED BY <1>4, <1>5 DEF ReceivedInv

LEMMA ReceivedClaim ==
  ASSUME Inv, ReceivedInv, NEW p \in Pollers, ClaimPending(p)
  PROVE  ReceivedInv'
<1>1. /\ DOMAIN rows' = DOMAIN rows /\ channels' = channels
      /\ pc' = [pc EXCEPT ![p] = "fetch"] /\ outcome' = outcome
      /\ \A q \in Pollers : q # p => batch'[q] = batch[q]
      /\ \A r \in DOMAIN rows :
           IF r \in Held(p)' THEN rows'[r] = [rows[r] EXCEPT !.status = "processing"]
           ELSE rows'[r] = rows[r]
  BY Claimed DEF ClaimPending
<1>2. ASSUME NEW r \in DOMAIN rows
      PROVE  /\ rows'[r].channel = rows[r].channel /\ rows'[r].accepted = rows[r].accepted
             /\ rows'[r].status = "delivered" => rows[r].status = "delivered"
  <2>1. rows[r] \in Row
    BY ElementOfSeq DEF Inv, TypeOK
  <2>2. CASE r \in Held(p)'
    <3>1. rows'[r] = [rows[r] EXCEPT !.status = "processing"]
      BY <1>1, <2>2
    <3> QED BY <2>1, <3>1 DEF Row
  <2>3. CASE r \notin Held(p)'
    BY <1>1, <2>3
  <2> QED BY <2>2, <2>3
<1>3. Grows
  BY <1>1, <1>2 DEF Grows
<1>4. ASSUME NEW q \in Pollers PROVE RecordTrue(q)'
  <2>1. CASE q = p
    BY <1>1, <2>1 DEF RecordTrue, Inv, TypeOK
  <2>2. CASE q # p
    <3>1. batch'[q] = batch[q] /\ pc'[q] = pc[q] /\ outcome'[q] = outcome[q]
      BY <1>1, <2>2 DEF Inv, TypeOK
    <3> QED BY <1>3, <3>1, RecordKept
  <2> QED BY <2>1, <2>2
<1>5. DeliveredIsReceived'
  BY <1>1, <1>2, <1>3, DeliveredKept DEF DeliveredIsReceived
<1> QED BY <1>4, <1>5 DEF ReceivedInv

LEMMA ReceivedFetch ==
  ASSUME Inv, ReceivedInv, NEW p \in Pollers, FetchChannel(p)
  PROVE  ReceivedInv'
<1>1. /\ UNCHANGED <<rows, batch, channels>>
      /\ pc'[p] = "mark" => /\ outcome'[p] = "swallowed"
                            /\ channels[rows[Current(p).id].channel] = "gone"
      /\ \A q \in Pollers : q # p => pc'[q] = pc[q] /\ outcome'[q] = outcome[q]
  BY DEF FetchChannel, Record, Inv, TypeOK
<1>2. Grows
  BY <1>1 DEF Grows
<1>3. ASSUME NEW q \in Pollers PROVE RecordTrue(q)'
  <2>1. CASE q = p
    BY <1>1, <2>1 DEF RecordTrue, Current
  <2>2. CASE q # p
    BY <1>1, <1>2, <2>2, RecordKept
  <2> QED BY <2>1, <2>2
<1>4. DeliveredIsReceived'
  BY <1>1, <1>2, DeliveredKept DEF DeliveredIsReceived
<1> QED BY <1>3, <1>4 DEF ReceivedInv

LEMMA ReceivedSend ==
  ASSUME Inv, ReceivedInv, NEW p \in Pollers, NEW o \in Outcomes, Send(p, o)
  PROVE  ReceivedInv'
<1>0. PICK r : r = Current(p).id
  OBVIOUS
<1>1. /\ rows' = [rows EXCEPT ![r] = Sent(rows[r], o)] /\ batch' = batch /\ channels' = channels
      /\ pc' = [pc EXCEPT ![p] = "mark"] /\ outcome' = [outcome EXCEPT ![p] = o] /\ o # "swallowed"
  BY <1>0, OutcomeAssumption DEF Send, Record, AllOutcomes
<1>2. r \in DOMAIN rows /\ rows[r] \in Row /\ rows[r].status = "processing"
  BY <1>0, CurrentRow DEF Send
<1>3. /\ Sent(rows[r], o).channel = rows[r].channel /\ Sent(rows[r], o).status = "processing"
      /\ Sent(rows[r], o).accepted = rows[r].accepted + IF o = "accepted" THEN 1 ELSE 0
      /\ rows[r].accepted \in Nat
  BY <1>2 DEF Sent, Row
<1>4. /\ DOMAIN rows' = DOMAIN rows /\ rows'[r] = Sent(rows[r], o)
      /\ \A s \in DOMAIN rows : s # r => rows'[s] = rows[s]
  BY <1>1, <1>2 DEF Inv, TypeOK
<1>5. Grows
  BY <1>1, <1>3, <1>4 DEF Grows
<1>6. ASSUME NEW q \in Pollers PROVE RecordTrue(q)'
  <2>1. CASE q = p
    <3>1. o = "accepted" => rows'[r].accepted > 0
      BY <1>3, <1>4
    <3>2. outcome'[p] = o /\ Current(p)' = Current(p)
      BY <1>1 DEF Current, Inv, TypeOK
    <3> QED BY <1>0, <1>1, <2>1, <3>1, <3>2 DEF RecordTrue
  <2>2. CASE q # p
    <3>1. batch'[q] = batch[q] /\ pc'[q] = pc[q] /\ outcome'[q] = outcome[q]
      BY <1>1, <2>2 DEF Inv, TypeOK
    <3> QED BY <1>5, <3>1, RecordKept
  <2> QED BY <2>1, <2>2
<1>7. \A s \in DOMAIN rows' : rows'[s].status = "delivered" => s # r /\ rows[s].status = "delivered"
  BY <1>3, <1>4
<1>8. DeliveredIsReceived'
  BY <1>4, <1>5, <1>7, DeliveredKept DEF DeliveredIsReceived
<1> QED BY <1>6, <1>8 DEF ReceivedInv

LEMMA ReceivedMark ==
  ASSUME Inv, ReceivedInv, NEW p \in Pollers, MarkDelivered(p) \/ MarkRetry(p) \/ MarkError(p)
  PROVE  ReceivedInv'
<1>0. PICK r : r = Current(p).id
  OBVIOUS
<1>1. pc[p] = "mark" /\ Advance(p) /\ channels' = channels
  BY DEF MarkDelivered, MarkRetry, MarkError
<1>2. r \in DOMAIN rows /\ rows[r] \in Row /\ rows[r].status = "processing"
  BY <1>0, <1>1, CurrentRow
<1>3. /\ DOMAIN rows' = DOMAIN rows
      /\ \A s \in DOMAIN rows : s # r => rows'[s] = rows[s]
      /\ rows'[r].channel = rows[r].channel /\ rows'[r].accepted = rows[r].accepted
      /\ rows'[r].status = "delivered" => outcome[p] \in {"accepted", "swallowed"}
  <2>1. CASE MarkDelivered(p)
    BY <1>0, <1>2, <2>1 DEF MarkDelivered, Inv, TypeOK, Row
  <2>2. CASE MarkRetry(p)
    <3> DEFINE n == Current(p).attempts + 1
               row == [rows[r] EXCEPT !.attempts = n, !.last = outcome[p],
                                      !.status = IF n >= MaxAttempts THEN "failed" ELSE "pending"]
    <3>1. rows' = [rows EXCEPT ![r] = row]
      BY <1>0, <2>2 DEF MarkRetry
    <3> HIDE DEF n
    <3>2. /\ row.channel = rows[r].channel /\ row.accepted = rows[r].accepted
          /\ row.status # "delivered"
      BY <1>2 DEF Row
    <3> HIDE DEF row
    <3> QED BY <1>2, <3>1, <3>2 DEF Inv, TypeOK
  <2>3. CASE MarkError(p)
    BY <1>2, <2>3 DEF MarkError
  <2> QED BY <2>1, <2>2, <2>3
<1>4. Grows
  BY <1>1, <1>3 DEF Grows
<1>5. ASSUME NEW q \in Pollers PROVE RecordTrue(q)'
  <2>1. CASE q = p
    BY <1>1, <2>1 DEF RecordTrue, Advance, Inv, TypeOK
  <2>2. CASE q # p
    <3>1. batch'[q] = batch[q] /\ pc'[q] = pc[q] /\ outcome'[q] = outcome[q]
      BY <1>1, <2>2 DEF Advance, Inv, TypeOK
    <3> QED BY <1>4, <3>1, RecordKept
  <2> QED BY <2>1, <2>2
<1>6. rows'[r].status = "delivered" => rows'[r].accepted > 0 \/ channels'[rows'[r].channel] = "gone"
  BY <1>0, <1>1, <1>3 DEF ReceivedInv, RecordTrue
<1>7. DeliveredIsReceived'
  BY <1>3, <1>4, <1>6, DeliveredKept DEF DeliveredIsReceived
<1> QED BY <1>5, <1>7 DEF ReceivedInv

LEMMA ReceivedCrash ==
  ASSUME Inv, ReceivedInv, NEW p \in Pollers, Crash(p)
  PROVE  ReceivedInv'
<1>1. /\ UNCHANGED <<rows, channels>> /\ pc'[p] = "idle"
      /\ \A q \in Pollers : q # p => batch'[q] = batch[q] /\ pc'[q] = pc[q] /\ outcome'[q] = outcome[q]
  BY DEF Crash, Inv, TypeOK
<1>2. Grows
  BY <1>1 DEF Grows
<1>3. ASSUME NEW q \in Pollers PROVE RecordTrue(q)'
  <2>1. CASE q = p
    BY <1>1, <2>1 DEF RecordTrue
  <2>2. CASE q # p
    BY <1>1, <1>2, <2>2, RecordKept
  <2> QED BY <2>1, <2>2
<1>4. DeliveredIsReceived'
  BY <1>1, <1>2, DeliveredKept DEF DeliveredIsReceived
<1> QED BY <1>3, <1>4 DEF ReceivedInv

\* outbox.go:75 takes a channel it cannot read for a deleted one.  As long as
\* every channel can be read, a notice marked delivered was accepted by its
\* receiver or its channel is gone.
THEOREM ReceivedAlways == "read" \notin FaultKinds => (Spec => []DeliveredIsReceived)
<1> SUFFICES ASSUME "read" \notin FaultKinds PROVE Spec => []DeliveredIsReceived
  OBVIOUS
<1>1. Init => ReceivedInv
  BY DEF Init, ReceivedInv, DeliveredIsReceived, RecordTrue
<1>2. Inv /\ Inv' /\ ReceivedInv /\ [Next]_vars => ReceivedInv'
  <2>1. \A p \in Pollers : ~FetchError(p)
    BY DEF FetchError, Fault
  <2> QED
    BY <2>1, ReceivedAside, ReceivedEnqueue, ReceivedClaim, ReceivedFetch, ReceivedSend,
       ReceivedMark, ReceivedCrash
    DEF Next, Deliver, PollerFault
<1>3. ReceivedInv => DeliveredIsReceived
  BY DEF ReceivedInv
<1> QED BY <1>1, <1>2, <1>3, InvInit, InvNext, PTL DEF Spec
=============================================================================

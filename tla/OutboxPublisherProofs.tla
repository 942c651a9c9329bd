----------------------- MODULE OutboxPublisherProofs -----------------------
(***************************************************************************)
(* However many publishers overlap, whatever the size of a batch and         *)
(* whatever fails: no event is sent twice without a failure, none counts as  *)
(* published without a copy in the queue, and the events of a transaction    *)
(* leave in order.                                                           *)
(***************************************************************************)
EXTENDS OutboxPublisher, RowLemmas

(***************************************************************************)
(* The inductive invariant.                                                 *)
(***************************************************************************)
\* Rows are events; each is in one place.
RowsOK ==
  /\ line \in Seq(Events) /\ Distinct(line)
  /\ waiting \subseteq Events /\ published \subseteq Events
  /\ Members(line) \cap (waiting \cup published) = {} /\ waiting \cap published = {}
  /\ copies \in [Events -> 0..2]

\* A publisher has what its transaction has locked.
PublishersOK ==
  /\ batch \in [Publishers -> SUBSET Events] /\ todo \in [Publishers -> Seq(Events)]
  /\ marks \in [Publishers -> SUBSET Events] /\ fails \in [Publishers -> SUBSET Events]
  /\ doomed \in [Publishers -> BOOLEAN]

\* Batches are disjoint and of rows that are due; a row of a batch is to be sent, or
\* marked, or moved ahead, unless the transaction is doomed.
BatchOK(p) ==
  /\ batch[p] \subseteq Members(line)
  /\ Members(todo[p]) \subseteq batch[p] /\ Distinct(todo[p])
  /\ marks[p] \cup fails[p] \subseteq batch[p] /\ marks[p] \cap fails[p] = {}
  /\ Members(todo[p]) \cap (marks[p] \cup fails[p]) = {}
  /\ ~doomed[p] => batch[p] = Members(todo[p]) \cup marks[p] \cup fails[p]
  /\ \A q \in Publishers : p # q => batch[p] \cap batch[q] = {}
BatchesOK == \A p \in Publishers : BatchOK(p)

\* What is published or marked has been sent, what waits has had a failure.
DeliveryOK ==
  /\ waiting \subseteq troubled
  /\ \A e \in published : copies[e] > 0
  /\ \A p \in Publishers : fails[p] \subseteq troubled /\ \A e \in marks[p] : copies[e] > 0

\* An event that nothing has happened to has at most one copy, and if it has one, it
\* is published, or its publisher has done with it.
SendingOK ==
  \A e \in Events \ troubled :
    /\ copies[e] <= 1
    /\ copies[e] = 1 =>
         e \in published \/ \E p \in Publishers : e \in batch[p] \ Members(todo[p])

\* d was inserted by the same transaction as e, and earlier.
Precedes(d, e) ==
  \E t \in Transactions : \E j \in DOMAIN Emitted[t] : \E i \in 1..(j-1) :
    d = Emitted[t][i] /\ e = Emitted[t][j]

\* All rows of a transaction are committed, or none is.
CommitsAreWhole ==
  \A t \in Transactions :
    Members(Emitted[t]) \subseteq Committed \/ Members(Emitted[t]) \cap Committed = {}

\* A row comes before the later rows of its transaction, unless something happened to it.
LineKeepsOrder ==
  \A d, e \in Members(line) : Precedes(d, e) /\ d \notin troubled => Before(line, d, e)

\* Whoever is going to send a row is going to send the earlier ones first, or another
\* publisher has them.
TodoKeepsOrder ==
  \A q \in Publishers : \A e \in Members(todo[q]) : \A d \in Events \ troubled :
    Precedes(d, e) /\ copies[d] = 0 =>
      /\ \E p \in Publishers : d \in batch[p]
      /\ d \in batch[q] => Before(todo[q], d, e)

IInv ==
  /\ RowsOK /\ PublishersOK /\ BatchesOK
  /\ DeliveryOK /\ SendingOK
  /\ CommitsAreWhole /\ LineKeepsOrder /\ TodoKeepsOrder

(***************************************************************************)
(* Transactions and their events.                                           *)
(***************************************************************************)
LEMMA EmittedRows ==
  ASSUME NEW t \in Transactions
  PROVE  Emitted[t] \in Seq(Events) /\ Distinct(Emitted[t]) /\ Members(Emitted[t]) \subseteq Events
<1>1. Emitted[t] \in Seq(Events) /\ Distinct(Emitted[t])
  BY EmittedAssumption DEF Distinct
<1> QED  BY <1>1 DEF Members

\* Of two events of which one precedes the other, both are of one transaction, of which
\* they are two.
LEMMA EarlierInTransaction ==
  ASSUME NEW d, NEW e, Precedes(d, e)
  PROVE  /\ d \in Events /\ e \in Events /\ d # e
         /\ \E t \in Transactions : /\ d \in Members(Emitted[t]) /\ e \in Members(Emitted[t])
                                    /\ Before(Emitted[t], d, e)
<1>1. PICK t \in Transactions : \E j \in DOMAIN Emitted[t] : \E i \in 1..(j-1) :
        d = Emitted[t][i] /\ e = Emitted[t][j]
  BY DEF Precedes
<1>2. PICK s \in Seq(Events) : s = Emitted[t] /\ Distinct(s) /\ Members(s) \subseteq Events
  BY EmittedRows
<1>3. PICK j \in DOMAIN s : \E i \in 1..(j-1) : d = s[i] /\ e = s[j]
  BY <1>1, <1>2
<1>4. PICK i \in 1..(j-1) : d = s[i] /\ e = s[j]
  BY <1>3
<1>5. i \in DOMAIN s /\ i < j /\ i # j
  OBVIOUS
<1>6. d \in Members(s) /\ e \in Members(s) /\ Before(s, d, e)
  BY <1>4, <1>5 DEF Members, Before
<1>7. d # e
  BY <1>2, <1>4, <1>5 DEF Distinct
<1> QED  BY <1>2, <1>6, <1>7

LEMMA SameTransaction ==
  ASSUME NEW d, NEW e, Precedes(d, e), NEW t \in Transactions,
         d \in Members(Emitted[t]) \/ e \in Members(Emitted[t])
  PROVE  /\ d \in Members(Emitted[t]) /\ e \in Members(Emitted[t])
         /\ Before(Emitted[t], d, e)
<1>1. PICK u \in Transactions : /\ d \in Members(Emitted[u]) /\ e \in Members(Emitted[u])
                                /\ Before(Emitted[u], d, e)
  BY EarlierInTransaction
<1>2. u = t
  BY <1>1, EmittedAssumption
<1> QED  BY <1>1, <1>2

LEMMA NoRows ==
  Distinct(<<>>) /\ Members(<<>>) = {}
BY DEF Distinct, Members

(***************************************************************************)
(* The invariant is inductive.                                              *)
(***************************************************************************)
LEMMA InitIInv == Init => IInv
<1> SUFFICES ASSUME Init PROVE IInv
  OBVIOUS
<1>1. /\ line = <<>> /\ waiting = {} /\ published = {} /\ Members(line) = {}
      /\ \A e \in Events : copies[e] = 0
      /\ \A p \in Publishers : /\ batch[p] = {} /\ todo[p] = <<>> /\ Members(todo[p]) = {}
                               /\ marks[p] = {} /\ fails[p] = {} /\ doomed[p] = FALSE
  BY NoRows DEF Init
<1>2. RowsOK
  BY <1>1, NoRows DEF RowsOK, Init
<1>3. PublishersOK
  BY DEF PublishersOK, Init
<1>4. BatchesOK
  BY <1>1, NoRows DEF BatchesOK, BatchOK
<1>5. DeliveryOK /\ SendingOK
  BY <1>1 DEF DeliveryOK, SendingOK
<1>6. CommitsAreWhole /\ LineKeepsOrder /\ TodoKeepsOrder
  BY <1>1 DEF CommitsAreWhole, LineKeepsOrder, TodoKeepsOrder, Committed
<1> QED  BY <1>2, <1>3, <1>4, <1>5, <1>6 DEF IInv

\* A transaction's rows take their place among those that are due.
LEMMA EventsEnterLine ==
  ASSUME IInv, NEW t \in Transactions, CommitTransaction(t)
  PROVE  /\ line' \in Seq(Events) /\ Distinct(line')
         /\ Members(line') = Members(line) \cup Members(Emitted[t])
         /\ \A d, e : Before(line, d, e) \/ Before(Emitted[t], d, e) => Before(line', d, e)
         /\ Members(Emitted[t]) \subseteq Events /\ Members(Emitted[t]) \cap Committed = {}
         /\ Committed' = Committed \cup Members(Emitted[t])
<1>1. /\ Members(Emitted[t]) \cap Committed = {}
      /\ line' \in Interleavings(line, Emitted[t])
      /\ UNCHANGED <<waiting, published>>
  BY DEF CommitTransaction
<1>2. PICK s \in Seq(Events) : s = Emitted[t] /\ Distinct(s) /\ Members(s) \subseteq Events
  BY EmittedRows
<1>3. line \in Seq(Events) /\ line' \in Interleavings(line, s)
  BY <1>1, <1>2 DEF IInv, RowsOK
<1>5. /\ line' \in Seq(Events) /\ Distinct(line') /\ Members(line') = Members(line) \cup Members(s)
      /\ \A d, e : Before(line, d, e) \/ Before(s, d, e) => Before(line', d, e)
  BY <1>2, <1>3, RowsInterleaved
<1>6. Committed' = Committed \cup Members(s)
  BY <1>1, <1>5 DEF Committed
<1> QED  BY <1>1, <1>2, <1>5, <1>6

LEMMA CommitTransactionKeepsIInv ==
  ASSUME IInv, NEW t \in Transactions, CommitTransaction(t)
  PROVE  IInv'
<1>1. UNCHANGED <<waiting, published, batch, todo, marks, fails, doomed, copies, troubled>>
  BY DEF CommitTransaction, publisherVars
<1>2. PICK s : s = Emitted[t]
  OBVIOUS
<1>5. /\ line' \in Seq(Events) /\ Distinct(line') /\ Members(line') = Members(line) \cup Members(s)
      /\ \A d, e : Before(line, d, e) \/ Before(s, d, e) => Before(line', d, e)
      /\ Members(s) \subseteq Events /\ Members(s) \cap Committed = {}
      /\ Committed' = Committed \cup Members(s)
  BY <1>2, EventsEnterLine
<1>3. Members(s) \cap (waiting \cup published) = {}
  BY <1>5 DEF Committed
<1>6. RowsOK'
  BY <1>1, <1>3, <1>5 DEF IInv, RowsOK
<1>7. PublishersOK'
  BY <1>1 DEF IInv, PublishersOK
<1>8. BatchesOK'
  BY <1>1, <1>5 DEF IInv, BatchesOK, BatchOK
<1>9. DeliveryOK' /\ SendingOK' /\ TodoKeepsOrder'
  BY <1>1 DEF IInv, DeliveryOK, SendingOK, TodoKeepsOrder
<1>11. CommitsAreWhole'
  <2> SUFFICES ASSUME NEW u \in Transactions
               PROVE  \/ Members(Emitted[u]) \subseteq Committed'
                      \/ Members(Emitted[u]) \cap Committed' = {}
    BY DEF CommitsAreWhole
  <2>1. CASE u = t
    BY <1>2, <1>5, <2>1
  <2>2. CASE u # t
    <3>1. Members(Emitted[u]) \cap Members(s) = {}
      BY <1>2, <2>2, EmittedAssumption
    <3> QED  BY <1>5, <3>1 DEF IInv, CommitsAreWhole
  <2> QED  BY <2>1, <2>2
<1>12. LineKeepsOrder'
  <2> SUFFICES ASSUME NEW d \in Members(line'), NEW e \in Members(line'), Precedes(d, e), d \notin troubled
               PROVE  Before(line', d, e)
    BY <1>1 DEF LineKeepsOrder
  <2>1. CASE d \in Members(s) \/ e \in Members(s)
    BY <1>2, <1>5, <2>1, SameTransaction
  <2>2. CASE d \in Members(line) /\ e \in Members(line)
    BY <1>5, <2>2 DEF IInv, LineKeepsOrder
  <2> QED  BY <1>5, <2>1, <2>2
<1> QED  BY <1>6, <1>7, <1>8, <1>9, <1>11, <1>12 DEF IInv

LEMMA DueKeepsIInv ==
  ASSUME IInv, NEW x \in Events, Due(x)
  PROVE  IInv'
<1>1. /\ x \in waiting /\ waiting' = waiting \ {x} /\ line' = Append(line, x)
      /\ UNCHANGED <<published, batch, todo, marks, fails, doomed, copies, troubled>>
  BY DEF Due, publisherVars
<1>2. line \in Seq(Events) /\ Distinct(line) /\ x \notin Members(line) /\ x \notin published
  BY <1>1 DEF IInv, RowsOK
<1>3. /\ line' \in Seq(Events) /\ Distinct(line') /\ Members(line') = Members(line) \cup {x}
      /\ \A d, e : Before(line, d, e) => Before(line', d, e)
      /\ \A d \in Members(line) : Before(line', d, x)
  BY <1>1, <1>2, RowAppended
<1>4. RowsOK'
  BY <1>1, <1>2, <1>3 DEF IInv, RowsOK
<1>5. PublishersOK'
  BY <1>1 DEF IInv, PublishersOK
<1>6. BatchesOK'
  BY <1>1, <1>3 DEF IInv, BatchesOK, BatchOK
<1>7. DeliveryOK' /\ SendingOK' /\ TodoKeepsOrder'
  BY <1>1 DEF IInv, DeliveryOK, SendingOK, TodoKeepsOrder
<1>8. Committed' = Committed
  BY <1>1, <1>3 DEF Committed
<1>9. CommitsAreWhole'
  BY <1>8 DEF IInv, CommitsAreWhole
<1>10. LineKeepsOrder'
  <2> SUFFICES ASSUME NEW d \in Members(line'), NEW e \in Members(line'), Precedes(d, e), d \notin troubled
               PROVE  Before(line', d, e)
    BY <1>1 DEF LineKeepsOrder
  <2>1. d # x
    BY <1>1 DEF IInv, DeliveryOK
  <2>2. CASE e = x
    BY <1>3, <2>1, <2>2
  <2>3. CASE e # x
    BY <1>3, <2>1, <2>3 DEF IInv, LineKeepsOrder
  <2> QED  BY <2>2, <2>3
<1> QED  BY <1>4, <1>5, <1>6, <1>7, <1>9, <1>10 DEF IInv

LEMMA FetchKeepsIInv ==
  ASSUME IInv, NEW p \in Publishers, Fetch(p)
  PROVE  IInv'
<1> DEFINE free == Without(line, Locked)
           size == IF Len(free) < Limit THEN Len(free) ELSE Limit
<1>1. PICK rows : /\ rows = SubSeq(free, 1, size) /\ batch[p] = {}
                  /\ batch' = [batch EXCEPT ![p] = Members(rows)]
                  /\ todo' = [todo EXCEPT ![p] = rows]
                  /\ UNCHANGED <<line, waiting, published, marks, fails, doomed, copies, troubled>>
  BY DEF Fetch
<1>2. line \in Seq(Events) /\ Distinct(line)
  BY DEF IInv, RowsOK
<1>3. /\ free \in Seq(Events) /\ Distinct(free) /\ Members(free) = Members(line) \ Locked
      /\ \A d, e : d \notin Locked /\ e \notin Locked /\ Before(line, d, e) => Before(free, d, e)
  BY <1>2, WithoutRows
<1>4. size \in 0..Len(free)
  BY <1>3, LimitAssumption
<1> HIDE DEF free, size
<1>5. /\ rows \in Seq(Events) /\ Distinct(rows) /\ Members(rows) \subseteq Members(free)
      /\ \A d, e : Before(free, d, e) /\ e \in Members(rows) => Before(rows, d, e)
  BY <1>1, <1>3, <1>4, FirstRows
<1>6. /\ Members(rows) \subseteq Members(line) /\ Members(rows) \subseteq Events
      /\ Members(rows) \cap Locked = {}
  <2>1. Members(line) \subseteq Events
    BY <1>2 DEF Members
  <2> QED  BY <1>3, <1>5, <2>1
<1>7. /\ batch \in [Publishers -> SUBSET Events] /\ todo \in [Publishers -> Seq(Events)]
      /\ batch'[p] = Members(rows) /\ todo'[p] = rows
      /\ \A q \in Publishers : q # p => batch'[q] = batch[q] /\ todo'[q] = todo[q]
  BY <1>1 DEF IInv, PublishersOK
<1>8. \A q \in Publishers : batch[q] \cap Members(rows) = {}
  BY <1>6 DEF Locked
<1>9. RowsOK' /\ DeliveryOK' /\ LineKeepsOrder'
  BY <1>1 DEF IInv, RowsOK, DeliveryOK, LineKeepsOrder
<1>10. PublishersOK'
  BY <1>1, <1>5, <1>6 DEF IInv, PublishersOK
<1>11. BatchesOK'
  <2> SUFFICES ASSUME NEW q \in Publishers PROVE BatchOK(q)'
    BY DEF BatchesOK
  <2>1. BatchOK(q) /\ BatchOK(p)
    BY DEF IInv, BatchesOK
  <2>2. CASE q = p
    BY <1>1, <1>5, <1>6, <1>7, <1>8, <2>1, <2>2 DEF BatchOK
  <2>3. CASE q # p
    BY <1>1, <1>7, <1>8, <2>1, <2>3 DEF BatchOK
  <2> QED  BY <2>2, <2>3
<1>12. SendingOK'
  BY <1>1, <1>7 DEF IInv, SendingOK
<1>13. CommitsAreWhole'
  BY <1>1 DEF IInv, CommitsAreWhole, Committed
<1>14. TodoKeepsOrder'
  <2> SUFFICES ASSUME NEW q \in Publishers, NEW e \in Members(todo'[q]), NEW d \in Events \ troubled,
                      Precedes(d, e), copies[d] = 0
               PROVE  /\ \E r \in Publishers : d \in batch'[r]
                      /\ d \in batch'[q] => Before(todo'[q], d, e)
    BY <1>1 DEF TodoKeepsOrder
  <2>1. CASE q # p
    <3>1. /\ \E r \in Publishers : d \in batch[r]
          /\ d \in batch[q] => Before(todo[q], d, e)
      BY <1>7, <2>1 DEF IInv, TodoKeepsOrder
    <3> QED  BY <1>1, <1>7, <2>1, <3>1
  <2>2. CASE q = p
    <3>1. e \in Members(rows) /\ e \in Members(line) /\ e \notin Locked
      BY <1>6, <1>7, <2>2
    <3>2. d \in Committed
      <4>1. PICK t \in Transactions : d \in Members(Emitted[t]) /\ e \in Members(Emitted[t])
        BY EarlierInTransaction
      <4> QED  BY <3>1, <4>1 DEF IInv, CommitsAreWhole, Committed
    <3>3. d \in Members(line) /\ Before(line, d, e)
      BY <3>1, <3>2 DEF IInv, DeliveryOK, LineKeepsOrder, Committed
    <3>4. CASE d \in Locked
      <4>1. PICK r \in Publishers : d \in batch[r]
        BY <3>4 DEF Locked
      <4> QED  BY <1>1, <1>7, <1>8, <2>2, <4>1
    <3>5. CASE d \notin Locked
      <4>1. Before(rows, d, e)
        BY <1>3, <1>5, <3>1, <3>3, <3>5
      <4>2. d \in Members(rows)
        BY <4>1 DEF Before, Members
      <4> QED  BY <1>7, <2>2, <4>1, <4>2
    <3> QED  BY <3>4, <3>5
  <2> QED  BY <2>1, <2>2
<1> QED  BY <1>9, <1>10, <1>11, <1>12, <1>13, <1>14 DEF IInv

(***************************************************************************)
(* The steps that send a row.                                               *)
(***************************************************************************)
\* What sending a row, with whatever outcome, does to the publisher's batch.
BatchAfter(p, e) ==
  /\ Members(todo'[p]) = Members(todo[p]) \ {e}
  /\ todo'[p] \in Seq(Events) /\ Distinct(todo'[p])
  /\ \A d, x : Before(todo[p], d, x) /\ d # e => Before(todo'[p], d, x)
  /\ marks'[p] \subseteq marks[p] \cup {e} /\ fails'[p] \subseteq fails[p] \cup {e}
  /\ marks'[p] \cap fails'[p] = {}
  /\ ~doomed'[p] => ~doomed[p] /\ marks'[p] \cup fails'[p] = marks[p] \cup fails[p] \cup {e}
  /\ \A q \in Publishers : q # p =>
       todo'[q] = todo[q] /\ marks'[q] = marks[q] /\ fails'[q] = fails[q] /\ doomed'[q] = doomed[q]

\* What it does to the copies of the row.
CopiesAfter(p, e) ==
  /\ copies' \in [Events -> 0..2] /\ \A x \in Events \ {e} : copies'[x] = copies[x]
  /\ copies'[e] \in {copies[e], More(copies[e])}
  /\ troubled \subseteq troubled' /\ troubled' \subseteq troubled \cup {e}
  /\ copies'[e] > 0 \/ e \in troubled'
  /\ e \in marks'[p] => copies'[e] > 0
  /\ e \in fails'[p] => e \in troubled'

LEMMA NextRowIsThere ==
  ASSUME IInv, NEW p \in Publishers, Sending(p)
  PROVE  /\ NextRow(p) \in Events /\ NextRow(p) \in Members(todo[p]) /\ NextRow(p) \in batch[p]
         /\ NextRow(p) \notin marks[p] \cup fails[p] /\ NextRow(p) \in Members(line)
         /\ NextRow(p) \notin published
         /\ \A d : ~Before(todo[p], d, NextRow(p))
<1>1. PICK s \in Seq(Events) : s = todo[p] /\ s # <<>> /\ Distinct(s)
  BY DEF IInv, PublishersOK, BatchesOK, BatchOK, Sending
<1>2. Head(s) \in Members(s) /\ \A d : ~Before(s, d, Head(s))
  BY <1>1, RestOfRows
<1>3. NextRow(p) = Head(s)
  BY <1>1 DEF NextRow
<1>4. Head(s) \in Events
  BY <1>1
<1>5. BatchOK(p)
  BY DEF IInv, BatchesOK
<1> QED  BY <1>1, <1>2, <1>3, <1>4, <1>5 DEF BatchOK, IInv, RowsOK

LEMMA MoreIsACount ==
  ASSUME NEW n \in 0..2
  PROVE  More(n) \in 1..2 /\ (n = 0 => More(n) = 1)
BY DEF More

LEMMA AfterSending ==
  ASSUME IInv, NEW p \in Publishers, Publish(p) \/ SendFails(p) \/ UpdateFails(p)
  PROVE  /\ Sending(p)
         /\ UNCHANGED <<line, waiting, published, batch>>
         /\ PublishersOK' /\ BatchAfter(p, NextRow(p)) /\ CopiesAfter(p, NextRow(p))
<1>1. PICK e : e = NextRow(p)
  OBVIOUS
<1>2. Sending(p)
  BY DEF Publish, SendFails, UpdateFails
<1>3. e \in Events /\ e \in Members(todo[p]) /\ e \in batch[p] /\ e \notin marks[p] \cup fails[p]
  BY <1>1, <1>2, NextRowIsThere
<1>4. /\ batch \in [Publishers -> SUBSET Events] /\ todo \in [Publishers -> Seq(Events)]
      /\ marks \in [Publishers -> SUBSET Events] /\ fails \in [Publishers -> SUBSET Events]
      /\ doomed \in [Publishers -> BOOLEAN] /\ copies \in [Events -> 0..2]
  BY DEF IInv, PublishersOK, RowsOK
<1>5. /\ todo' = [todo EXCEPT ![p] = Tail(todo[p])]
      /\ UNCHANGED <<line, waiting, published, batch>>
  BY DEF Publish, SendFails, UpdateFails, Advance
<1>6. PICK s \in Seq(Events) : s = todo[p] /\ s # <<>> /\ Distinct(s) /\ e = Head(s)
  BY <1>1, <1>2, <1>4 DEF IInv, BatchesOK, BatchOK, Sending, NextRow
<1>7. /\ Tail(s) \in Seq(Events) /\ Distinct(Tail(s))
      /\ Members(Tail(s)) = Members(s) \ {e}
      /\ \A d, x : Before(s, d, x) /\ d # e => Before(Tail(s), d, x)
  BY <1>6, RestOfRows
<1>8. /\ todo' \in [Publishers -> Seq(Events)]
      /\ todo'[p] = Tail(s) /\ \A q \in Publishers : q # p => todo'[q] = todo[q]
  BY <1>4, <1>5, <1>6, <1>7
<1>9. More(copies[e]) \in 1..2
  BY <1>3, <1>4, MoreIsACount
<1>10. marks[p] \cap fails[p] = {}
  BY DEF IInv, BatchesOK, BatchOK
<1>11. CASE Publish(p)
  <2>1. /\ copies' = [copies EXCEPT ![e] = More(copies[e])]
        /\ marks' = [marks EXCEPT ![p] = IF doomed[p] THEN marks[p] ELSE marks[p] \cup {e}]
        /\ UNCHANGED <<fails, doomed, troubled>>
    BY <1>1, <1>11 DEF Publish
  <2>2. /\ marks' \in [Publishers -> SUBSET Events]
        /\ marks'[p] = IF doomed[p] THEN marks[p] ELSE marks[p] \cup {e}
        /\ \A q \in Publishers : q # p => marks'[q] = marks[q]
    BY <1>3, <1>4, <2>1
  <2>3. /\ copies' \in [Events -> 0..2] /\ copies'[e] = More(copies[e])
        /\ \A x \in Events \ {e} : copies'[x] = copies[x]
    BY <1>3, <1>4, <1>9, <2>1
  <2>4. PublishersOK'
    BY <1>4, <1>5, <1>8, <2>1, <2>2 DEF PublishersOK
  <2>5. BatchAfter(p, e)
    BY <1>3, <1>6, <1>7, <1>8, <1>10, <2>1, <2>2 DEF BatchAfter
  <2>6. CopiesAfter(p, e)
    BY <1>3, <1>9, <2>1, <2>3 DEF CopiesAfter
  <2> QED  BY <1>1, <1>2, <1>5, <2>4, <2>5, <2>6
<1>12. CASE SendFails(p)
  <2>1. /\ copies' \in {copies, [copies EXCEPT ![e] = More(copies[e])]}
        /\ fails' = [fails EXCEPT ![p] = IF doomed[p] THEN fails[p] ELSE fails[p] \cup {e}]
        /\ troubled' = troubled \cup {e} /\ UNCHANGED <<marks, doomed>>
    BY <1>1, <1>12 DEF SendFails, PerhapsSent
  <2>2. /\ fails' \in [Publishers -> SUBSET Events]
        /\ fails'[p] = IF doomed[p] THEN fails[p] ELSE fails[p] \cup {e}
        /\ \A q \in Publishers : q # p => fails'[q] = fails[q]
    BY <1>3, <1>4, <2>1
  <2>3. /\ copies' \in [Events -> 0..2] /\ copies'[e] \in {copies[e], More(copies[e])}
        /\ \A x \in Events \ {e} : copies'[x] = copies[x]
    <3>1. CASE copies' = copies
      BY <1>4, <3>1
    <3>2. CASE copies' = [copies EXCEPT ![e] = More(copies[e])]
      BY <1>3, <1>4, <1>9, <3>2
    <3> QED  BY <2>1, <3>1, <3>2
  <2>4. PublishersOK'
    BY <1>4, <1>5, <1>8, <2>1, <2>2 DEF PublishersOK
  <2>5. BatchAfter(p, e)
    BY <1>3, <1>6, <1>7, <1>8, <1>10, <2>1, <2>2 DEF BatchAfter
  <2>6. CopiesAfter(p, e)
    BY <1>3, <1>9, <2>1, <2>3 DEF CopiesAfter
  <2> QED  BY <1>1, <1>2, <1>5, <2>4, <2>5, <2>6
<1>13. CASE UpdateFails(p)
  <2>1. /\ copies' \in {copies, [copies EXCEPT ![e] = More(copies[e])]}
        /\ doomed' = [doomed EXCEPT ![p] = TRUE]
        /\ troubled' = troubled \cup {e} /\ UNCHANGED <<marks, fails>>
    BY <1>1, <1>13 DEF UpdateFails, PerhapsSent
  <2>2. /\ doomed' \in [Publishers -> BOOLEAN] /\ doomed'[p] = TRUE
        /\ \A q \in Publishers : q # p => doomed'[q] = doomed[q]
    BY <1>4, <2>1
  <2>3. /\ copies' \in [Events -> 0..2] /\ copies'[e] \in {copies[e], More(copies[e])}
        /\ \A x \in Events \ {e} : copies'[x] = copies[x]
    <3>1. CASE copies' = copies
      BY <1>4, <3>1
    <3>2. CASE copies' = [copies EXCEPT ![e] = More(copies[e])]
      BY <1>3, <1>4, <1>9, <3>2
    <3> QED  BY <2>1, <3>1, <3>2
  <2>4. PublishersOK'
    BY <1>4, <1>5, <1>8, <2>1, <2>2 DEF PublishersOK
  <2>5. BatchAfter(p, e)
    BY <1>6, <1>7, <1>8, <1>10, <2>1, <2>2 DEF BatchAfter
  <2>6. CopiesAfter(p, e)
    BY <1>3, <1>9, <2>1, <2>3 DEF CopiesAfter
  <2> QED  BY <1>1, <1>2, <1>5, <2>4, <2>5, <2>6
<1> QED  BY <1>11, <1>12, <1>13

LEMMA SendingKeepsIInv ==
  ASSUME IInv, NEW p \in Publishers, Publish(p) \/ SendFails(p) \/ UpdateFails(p)
  PROVE  IInv'
<1>1. PICK e : e = NextRow(p)
  OBVIOUS
<1>2. /\ Sending(p) /\ UNCHANGED <<line, waiting, published, batch>>
      /\ PublishersOK' /\ BatchAfter(p, e) /\ CopiesAfter(p, e)
  BY <1>1, AfterSending
<1>3. /\ e \in Events /\ e \in Members(todo[p]) /\ e \in batch[p] /\ e \notin marks[p] \cup fails[p]
      /\ e \in Members(line) /\ e \notin published /\ \A d : ~Before(todo[p], d, e)
  BY <1>1, <1>2, NextRowIsThere
<1>4. RowsOK'
  BY <1>2 DEF IInv, RowsOK, CopiesAfter
<1>5. BatchesOK'
  <2> SUFFICES ASSUME NEW q \in Publishers PROVE BatchOK(q)'
    BY DEF BatchesOK
  <2>1. BatchOK(q)
    BY DEF IInv, BatchesOK
  <2>2. CASE q = p
    BY <1>2, <1>3, <2>1, <2>2 DEF BatchOK, BatchAfter
  <2>3. CASE q # p
    BY <1>2, <2>1, <2>3 DEF BatchOK, BatchAfter
  <2> QED  BY <2>2, <2>3
<1>6. \A x \in Events : copies[x] > 0 => copies'[x] > 0
  <2>1. copies \in [Events -> 0..2] /\ (copies[e] > 0 => More(copies[e]) > 0)
    <3>1. copies \in [Events -> 0..2]
      BY DEF IInv, RowsOK
    <3> QED  BY <1>3, <3>1, MoreIsACount
  <2> QED  BY <1>2, <2>1 DEF CopiesAfter
<1>7. DeliveryOK'
  <2>1. waiting \subseteq troubled' /\ \A x \in published : copies'[x] > 0
    BY <1>2, <1>6 DEF IInv, DeliveryOK, CopiesAfter, RowsOK
  <2>2. ASSUME NEW q \in Publishers PROVE fails'[q] \subseteq troubled' /\ \A x \in marks'[q] : copies'[x] > 0
    <3>1. fails[q] \subseteq troubled /\ \A x \in marks[q] : x \in Events /\ copies[x] > 0
      BY DEF IInv, DeliveryOK, PublishersOK
    <3>2. CASE q = p
      BY <1>2, <1>6, <3>1, <3>2 DEF BatchAfter, CopiesAfter
    <3>3. CASE q # p
      BY <1>2, <1>6, <3>1, <3>3 DEF BatchAfter, CopiesAfter
    <3> QED  BY <3>2, <3>3
  <2> QED  BY <1>2, <2>1, <2>2 DEF DeliveryOK
<1>8. SendingOK'
  <2> SUFFICES ASSUME NEW x \in Events \ troubled'
               PROVE  /\ copies'[x] <= 1
                      /\ copies'[x] = 1 =>
                           x \in published \/ \E q \in Publishers : x \in batch[q] \ Members(todo'[q])
    BY <1>2 DEF SendingOK
  <2>1. /\ x \in Events \ troubled /\ copies[x] <= 1
        /\ copies[x] = 1 =>
             x \in published \/ \E q \in Publishers : x \in batch[q] \ Members(todo[q])
    BY <1>2 DEF IInv, SendingOK, CopiesAfter
  <2>2. CASE x = e
    <3>1. copies[x] = 0
      <4>1. ASSUME NEW q \in Publishers, x \in batch[q] \ Members(todo[q]) PROVE FALSE
        BY <1>3, <2>2, <4>1 DEF IInv, BatchesOK, BatchOK
      <4>2. copies[x] \in 0..2
        BY DEF IInv, RowsOK
      <4> QED  BY <1>3, <2>1, <2>2, <4>1, <4>2
    <3>2. More(copies[e]) = 1
      BY <2>2, <3>1, MoreIsACount
    <3>3. copies'[x] <= 1
      BY <1>2, <2>2, <3>1, <3>2 DEF CopiesAfter
    <3> QED  BY <1>2, <1>3, <2>2, <3>3 DEF BatchAfter
  <2>3. CASE x # e
    <3>1. copies'[x] = copies[x]
      BY <1>2, <2>3 DEF CopiesAfter
    <3>2. \A q \in Publishers : x \notin Members(todo[q]) => x \notin Members(todo'[q])
      BY <1>2 DEF BatchAfter
    <3> QED  BY <2>1, <3>1, <3>2
  <2> QED  BY <2>2, <2>3
<1>9. CommitsAreWhole'
  BY <1>2 DEF IInv, CommitsAreWhole, Committed
<1>10. LineKeepsOrder'
  BY <1>2 DEF IInv, LineKeepsOrder, CopiesAfter
<1>11. TodoKeepsOrder'
  <2> SUFFICES ASSUME NEW q \in Publishers, NEW x \in Members(todo'[q]), NEW d \in Events \ troubled',
                      Precedes(d, x), copies'[d] = 0
               PROVE  /\ \E r \in Publishers : d \in batch[r]
                      /\ d \in batch[q] => Before(todo'[q], d, x)
    BY <1>2 DEF TodoKeepsOrder
  <2>1. d # e
    BY <1>2 DEF CopiesAfter
  <2>2. copies[d] = 0 /\ d \in Events \ troubled
    BY <1>2, <2>1 DEF CopiesAfter
  <2>3. x \in Members(todo[q])
    BY <1>2 DEF BatchAfter
  <2>4. /\ \E r \in Publishers : d \in batch[r]
        /\ d \in batch[q] => Before(todo[q], d, x)
    BY <2>2, <2>3 DEF IInv, TodoKeepsOrder
  <2>5. Before(todo[q], d, x) => Before(todo'[q], d, x)
    BY <1>2, <2>1 DEF BatchAfter
  <2> QED  BY <2>4, <2>5
<1> QED  BY <1>2, <1>4, <1>5, <1>7, <1>8, <1>9, <1>10, <1>11 DEF IInv

(***************************************************************************)
(* The end of a transaction.                                                *)
(***************************************************************************)
LEMMA Released ==
  ASSUME IInv, NEW p \in Publishers, Release(p)
  PROVE  /\ PublishersOK'
         /\ batch'[p] = {} /\ todo'[p] = <<>> /\ marks'[p] = {} /\ fails'[p] = {} /\ doomed'[p] = FALSE
         /\ Distinct(todo'[p]) /\ Members(todo'[p]) = {}
         /\ \A q \in Publishers : q # p =>
              /\ batch'[q] = batch[q] /\ todo'[q] = todo[q] /\ marks'[q] = marks[q]
              /\ fails'[q] = fails[q] /\ doomed'[q] = doomed[q]
<1>1. /\ batch \in [Publishers -> SUBSET Events] /\ todo \in [Publishers -> Seq(Events)]
      /\ marks \in [Publishers -> SUBSET Events] /\ fails \in [Publishers -> SUBSET Events]
      /\ doomed \in [Publishers -> BOOLEAN]
  BY DEF IInv, PublishersOK
<1> QED  BY <1>1, NoRows DEF Release, PublishersOK

LEMMA RollBackKeepsIInv ==
  ASSUME IInv, NEW p \in Publishers, RollBack(p)
  PROVE  IInv'
<1>1. /\ troubled' = troubled \cup batch[p] /\ Release(p)
      /\ UNCHANGED <<line, waiting, published, copies>>
  BY DEF RollBack
<1>2. /\ PublishersOK'
      /\ batch'[p] = {} /\ marks'[p] = {} /\ fails'[p] = {} /\ doomed'[p] = FALSE
      /\ Distinct(todo'[p]) /\ Members(todo'[p]) = {}
      /\ \A q \in Publishers : q # p =>
           /\ batch'[q] = batch[q] /\ todo'[q] = todo[q] /\ marks'[q] = marks[q]
           /\ fails'[q] = fails[q] /\ doomed'[q] = doomed[q]
  BY <1>1, Released
<1>3. RowsOK'
  BY <1>1 DEF IInv, RowsOK
<1>4. BatchesOK'
  <2> SUFFICES ASSUME NEW q \in Publishers PROVE BatchOK(q)'
    BY DEF BatchesOK
  <2>1. BatchOK(q)
    BY DEF IInv, BatchesOK
  <2> QED  BY <1>1, <1>2, <2>1 DEF BatchOK
<1>5. DeliveryOK'
  BY <1>1, <1>2 DEF IInv, DeliveryOK
<1>6. SendingOK'
  <2> SUFFICES ASSUME NEW x \in Events \ troubled'
               PROVE  /\ copies[x] <= 1
                      /\ copies[x] = 1 =>
                           x \in published \/ \E q \in Publishers : x \in batch'[q] \ Members(todo'[q])
    BY <1>1 DEF SendingOK
  <2>1. /\ copies[x] <= 1 /\ x \notin batch[p]
        /\ copies[x] = 1 =>
             x \in published \/ \E q \in Publishers : x \in batch[q] \ Members(todo[q])
    BY <1>1 DEF IInv, SendingOK
  <2> QED  BY <1>2, <2>1
<1>7. CommitsAreWhole' /\ LineKeepsOrder'
  BY <1>1 DEF IInv, CommitsAreWhole, Committed, LineKeepsOrder
<1>8. TodoKeepsOrder'
  <2> SUFFICES ASSUME NEW q \in Publishers, NEW x \in Members(todo'[q]), NEW d \in Events \ troubled',
                      Precedes(d, x), copies[d] = 0
               PROVE  /\ \E r \in Publishers : d \in batch'[r]
                      /\ d \in batch'[q] => Before(todo'[q], d, x)
    BY <1>1 DEF TodoKeepsOrder
  <2>1. q # p /\ d \notin batch[p] /\ d \notin troubled
    BY <1>1, <1>2
  <2>2. /\ \E r \in Publishers : d \in batch[r]
        /\ d \in batch[q] => Before(todo[q], d, x)
    BY <1>2, <2>1 DEF IInv, TodoKeepsOrder
  <2> QED  BY <1>2, <2>1, <2>2
<1> QED  BY <1>2, <1>3, <1>4, <1>5, <1>6, <1>7, <1>8 DEF IInv

\* All rows of the batch are marked or moved ahead, and leave the line.
LEMMA BatchLeavesLine ==
  ASSUME IInv, NEW p \in Publishers, CommitBatch(p)
  PROVE  /\ batch[p] = marks[p] \cup fails[p]
         /\ line' \in Seq(Events) /\ Distinct(line') /\ Members(line') = Members(line) \ batch[p]
         /\ \A d, e : d \notin batch[p] /\ e \notin batch[p] /\ Before(line, d, e) => Before(line', d, e)
         /\ Committed' = Committed
<1>1. PICK M : M = marks[p] \cup fails[p]
  OBVIOUS
<1>2. /\ todo[p] = <<>> /\ ~doomed[p]
      /\ published' = published \cup marks[p] /\ waiting' = waiting \cup fails[p]
      /\ line' = Without(line, M)
  BY <1>1 DEF CommitBatch, Sending
<1>3. BatchOK(p) /\ Members(todo[p]) = {}
  BY <1>2, NoRows DEF IInv, BatchesOK
<1>4. batch[p] = M /\ M \subseteq Members(line)
  BY <1>1, <1>2, <1>3 DEF BatchOK
<1>5. line \in Seq(Events) /\ Distinct(line)
  BY DEF IInv, RowsOK
<1>6. /\ line' \in Seq(Events) /\ Distinct(line') /\ Members(line') = Members(line) \ M
      /\ \A d, e : d \notin M /\ e \notin M /\ Before(line, d, e) => Before(line', d, e)
  BY <1>2, <1>5, WithoutRows
<1>7. Committed' = Committed
  BY <1>1, <1>2, <1>4, <1>6 DEF Committed
<1> QED  BY <1>1, <1>4, <1>6, <1>7

LEMMA CommitBatchKeepsIInv ==
  ASSUME IInv, NEW p \in Publishers, CommitBatch(p)
  PROVE  IInv'
<1>1. PICK M : M = marks[p] \cup fails[p]
  OBVIOUS
<1>2. /\ todo[p] = <<>> /\ ~doomed[p] /\ Release(p)
      /\ published' = published \cup marks[p] /\ waiting' = waiting \cup fails[p]
      /\ UNCHANGED <<copies, troubled>>
  BY DEF CommitBatch, Sending
<1>3. /\ PublishersOK'
      /\ batch'[p] = {} /\ marks'[p] = {} /\ fails'[p] = {} /\ doomed'[p] = FALSE
      /\ Distinct(todo'[p]) /\ Members(todo'[p]) = {}
      /\ \A q \in Publishers : q # p =>
           /\ batch'[q] = batch[q] /\ todo'[q] = todo[q] /\ marks'[q] = marks[q]
           /\ fails'[q] = fails[q] /\ doomed'[q] = doomed[q]
  BY <1>2, Released
<1>4. BatchOK(p) /\ Members(todo[p]) = {}
  BY <1>2, NoRows DEF IInv, BatchesOK
<1>5. batch[p] = M /\ marks[p] \cap fails[p] = {} /\ M \subseteq Members(line)
  BY <1>1, <1>4, BatchLeavesLine DEF BatchOK
<1>6. fails[p] \subseteq troubled /\ \A x \in marks[p] : copies[x] > 0
  BY DEF IInv, DeliveryOK
<1>7. /\ line' \in Seq(Events) /\ Distinct(line') /\ Members(line') = Members(line) \ M
      /\ \A d, e : d \notin M /\ e \notin M /\ Before(line, d, e) => Before(line', d, e)
  BY <1>5, BatchLeavesLine
<1>8. RowsOK'
  <2>1. marks[p] \subseteq Events /\ fails[p] \subseteq Events
    BY DEF IInv, PublishersOK
  <2> QED  BY <1>1, <1>2, <1>5, <1>7, <2>1 DEF IInv, RowsOK
<1>9. BatchesOK'
  <2> SUFFICES ASSUME NEW q \in Publishers PROVE BatchOK(q)'
    BY DEF BatchesOK
  <2>1. BatchOK(q)
    BY DEF IInv, BatchesOK
  <2>2. CASE q = p
    BY <1>3, <2>2 DEF BatchOK
  <2>3. CASE q # p
    <3>1. batch[q] \cap M = {}
      BY <1>4, <1>5, <2>3 DEF BatchOK
    <3> QED  BY <1>3, <1>7, <2>1, <2>3, <3>1 DEF BatchOK
  <2> QED  BY <2>2, <2>3
<1>10. DeliveryOK'
  BY <1>2, <1>3, <1>6 DEF IInv, DeliveryOK
<1>11. SendingOK'
  <2> SUFFICES ASSUME NEW x \in Events \ troubled
               PROVE  /\ copies[x] <= 1
                      /\ copies[x] = 1 =>
                           x \in published' \/ \E q \in Publishers : x \in batch'[q] \ Members(todo'[q])
    BY <1>2 DEF SendingOK
  <2>1. /\ copies[x] <= 1
        /\ copies[x] = 1 =>
             x \in published \/ \E q \in Publishers : x \in batch[q] \ Members(todo[q])
    BY DEF IInv, SendingOK
  <2>2. CASE x \in batch[p]
    BY <1>1, <1>2, <1>5, <1>6, <2>1, <2>2
  <2>3. CASE x \notin batch[p]
    BY <1>2, <1>3, <2>1, <2>3
  <2> QED  BY <2>2, <2>3
<1>12. CommitsAreWhole'
  <2>1. Committed' = Committed
    BY BatchLeavesLine
  <2> QED  BY <2>1 DEF IInv, CommitsAreWhole
<1>13. LineKeepsOrder'
  <2> SUFFICES ASSUME NEW d \in Members(line'), NEW e \in Members(line'), Precedes(d, e), d \notin troubled
               PROVE  Before(line', d, e)
    BY <1>2 DEF LineKeepsOrder
  <2>1. d \in Members(line) \ M /\ e \in Members(line) \ M
    BY <1>7
  <2> QED  BY <1>7, <2>1 DEF IInv, LineKeepsOrder
<1>14. TodoKeepsOrder'
  <2> SUFFICES ASSUME NEW q \in Publishers, NEW x \in Members(todo'[q]), NEW d \in Events \ troubled,
                      Precedes(d, x), copies[d] = 0
               PROVE  /\ \E r \in Publishers : d \in batch'[r]
                      /\ d \in batch'[q] => Before(todo'[q], d, x)
    BY <1>2 DEF TodoKeepsOrder
  <2>1. q # p /\ d \notin batch[p]
    BY <1>1, <1>3, <1>5, <1>6
  <2>2. /\ \E r \in Publishers : d \in batch[r]
        /\ d \in batch[q] => Before(todo[q], d, x)
    BY <1>3, <2>1 DEF IInv, TodoKeepsOrder
  <2> QED  BY <1>3, <2>1, <2>2
<1> QED  BY <1>3, <1>8, <1>9, <1>10, <1>11, <1>12, <1>13, <1>14 DEF IInv

LEMMA NextKeepsIInv ==
  IInv /\ [Next]_vars => IInv'
<1> SUFFICES ASSUME IInv, [Next]_vars PROVE IInv'
  OBVIOUS
<1>1. ASSUME NEW t \in Transactions, CommitTransaction(t) PROVE IInv'
  BY <1>1, CommitTransactionKeepsIInv
<1>2. ASSUME NEW e \in Events, Due(e) PROVE IInv'
  BY <1>2, DueKeepsIInv
<1>3. ASSUME NEW p \in Publishers, PublisherStep(p) PROVE IInv'
  <2>1. CASE Fetch(p)
    BY <2>1, FetchKeepsIInv
  <2>2. CASE Publish(p) \/ SendFails(p)
    BY <2>2, SendingKeepsIInv
  <2>3. CASE CommitBatch(p)
    BY <2>3, CommitBatchKeepsIInv
  <2>4. CASE RollBackDoomed(p)
    <3>1. RollBack(p)
      BY <2>4 DEF RollBackDoomed
    <3> QED  BY <3>1, RollBackKeepsIInv
  <2> QED  BY <1>3, <2>1, <2>2, <2>3, <2>4 DEF PublisherStep
<1>4. ASSUME NEW p \in Publishers, Fault(p) PROVE IInv'
  <2>1. CASE UpdateFails(p)
    BY <2>1, SendingKeepsIInv
  <2>2. CASE Crash(p)
    <3>1. RollBack(p)
      BY <2>2 DEF Crash
    <3> QED  BY <3>1, RollBackKeepsIInv
  <2> QED  BY <1>4, <2>1, <2>2 DEF Fault
<1>5. CASE UNCHANGED vars
  <2>1. UNCHANGED <<line, waiting, published, batch, todo, marks, fails, doomed, copies, troubled>>
    BY <1>5 DEF vars, publisherVars
  <2>2. RowsOK' /\ PublishersOK' /\ BatchesOK'
    BY <2>1 DEF IInv, RowsOK, PublishersOK, BatchesOK, BatchOK
  <2>3. DeliveryOK' /\ SendingOK' /\ CommitsAreWhole' /\ LineKeepsOrder' /\ TodoKeepsOrder'
    BY <2>1 DEF IInv, DeliveryOK, SendingOK, CommitsAreWhole, Committed, LineKeepsOrder, TodoKeepsOrder
  <2> QED  BY <2>2, <2>3 DEF IInv
<1> QED  BY <1>1, <1>2, <1>3, <1>4, <1>5 DEF Next

\* Whatever publishers send, fail at and lose, they keep the invariant: rows in one
\* place and order, batches disjoint, and nothing out of its turn.
THEOREM Safety ==
  Spec => []IInv
<1>1. Init => IInv
  BY InitIInv
<1>2. IInv /\ [Next]_vars => IInv'
  BY NextKeepsIInv
<1> QED  BY <1>1, <1>2, PTL DEF Spec

(***************************************************************************)
(* What it is for.                                                          *)
(***************************************************************************)
\* Of any number of publishers each row is in one place and one batch, whatever the
\* locks are used for and whatever fails.
THEOREM TypeCorrect ==
  Spec => []PublisherTypeOK
<1>1. IInv => PublisherTypeOK
  <2> SUFFICES ASSUME IInv PROVE PublisherTypeOK
    OBVIOUS
  <2>1. Cardinality(Members(line)) = Len(line)
    BY RowsAreCounted DEF IInv, RowsOK
  <2>2. ASSUME NEW p \in Publishers PROVE todo[p] \in Seq(batch[p])
    <3>1. PICK s \in Seq(Events) : s = todo[p] /\ Members(s) \subseteq batch[p]
      BY DEF IInv, PublishersOK, BatchesOK, BatchOK
    <3>2. \A i \in 1..Len(s) : s[i] \in batch[p]
      BY <3>1 DEF Members
    <3>3. s \in Seq(batch[p])
      BY <3>2
    <3> QED  BY <3>1, <3>3
  <2> QED  BY <2>1, <2>2 DEF IInv, RowsOK, BatchesOK, BatchOK, PublisherTypeOK
<1> QED  BY <1>1, Safety, PTL

\* However many publishers overlap, an event is sent twice only after its own send has
\* failed or its batch has been rolled back.
THEOREM NothingIsSentTwice ==
  Spec => []ResentOnlyAfterTrouble
<1>1. IInv => ResentOnlyAfterTrouble
  BY DEF IInv, RowsOK, SendingOK, ResentOnlyAfterTrouble
<1> QED  BY <1>1, Safety, PTL

\* A step that sends e sends it behind the earlier events of its transaction.
LEMMA SendingKeepsOrder ==
  ASSUME IInv, NEW p \in Publishers, Publish(p) \/ SendFails(p) \/ UpdateFails(p)
  PROVE  OrderKept
<1>1. PICK x : x = NextRow(p)
  OBVIOUS
<1>2. Sending(p) /\ CopiesAfter(p, x)
  BY <1>1, AfterSending
<1>3. x \in Events /\ x \in Members(todo[p]) /\ x \in batch[p] /\ \A d : ~Before(todo[p], d, x)
  BY <1>1, <1>2, NextRowIsThere
<1> SUFFICES ASSUME NEW d, NEW e, Precedes(d, e), copies[e] = 0, copies'[e] > 0, copies[d] = 0,
                    d \notin troubled
             PROVE  \E r, q \in Publishers : r # q /\ d \in batch[r] /\ e \in batch[q]
  BY DEF OrderKept, Precedes
<1>4. d \in Events /\ e \in Events
  BY EarlierInTransaction
<1>5. e = x
  BY <1>2, <1>4 DEF CopiesAfter
<1>6. /\ \E r \in Publishers : d \in batch[r]
      /\ d \in batch[p] => Before(todo[p], d, e)
  BY <1>3, <1>4, <1>5 DEF IInv, TodoKeepsOrder
<1> QED  BY <1>3, <1>5, <1>6

\* The events of one transaction leave in the order of their insertion, except behind
\* one that something happened to, or that another publisher is sending.
THEOREM EventsLeaveInOrder ==
  Spec => OrderWithinTransaction
<1>1. IInv /\ [Next]_vars => [OrderKept]_vars
  <2> SUFFICES ASSUME IInv, Next PROVE OrderKept
    OBVIOUS
  <2>1. CASE UNCHANGED copies
    BY <2>1 DEF OrderKept
  <2>2. ASSUME NEW p \in Publishers, Publish(p) \/ SendFails(p) \/ UpdateFails(p) PROVE OrderKept
    BY <2>2, SendingKeepsOrder
  <2> QED  BY <2>1, <2>2 DEF Next, PublisherStep, Fault, CommitTransaction, Due, Fetch, CommitBatch,
                         RollBackDoomed, Crash, RollBack
<1> QED  BY <1>1, Safety, PTL DEF Spec, OrderWithinTransaction

(***************************************************************************)
(* The promise of the outbox.                                               *)
(***************************************************************************)
\* What the publisher's variables are to a reader of the queue.
Sent == {e \in Events : copies[e] > 0}

LEMMA SendingKeepsPromise ==
  ASSUME IInv, NEW p \in Publishers, Publish(p) \/ SendFails(p) \/ UpdateFails(p)
  PROVE  [Promise!Next]_(Promise!outboxVars)
<1>1. PICK x : x = NextRow(p)
  OBVIOUS
<1>2. Sending(p) /\ UNCHANGED <<line, waiting, published>> /\ CopiesAfter(p, x)
  BY <1>1, AfterSending
<1>3. x \in Events /\ x \in Members(line)
  BY <1>1, <1>2, NextRowIsThere
<1>4. UNCHANGED <<Committed, published>>
  BY <1>2 DEF Committed
<1>5. copies \in [Events -> 0..2] /\ (copies[x] > 0 => copies'[x] > 0)
  <2>1. copies \in [Events -> 0..2]
    BY DEF IInv, RowsOK
  <2> QED  BY <1>2, <1>3, <2>1, MoreIsACount DEF CopiesAfter
<1>6. CASE copies'[x] > 0
  <2>1. Sent' = Sent \cup {x}
    BY <1>2, <1>3, <1>6 DEF CopiesAfter, Sent
  <2>2. Promise!Deliver(x)
    BY <1>3, <1>4, <2>1 DEF Promise!Deliver, Committed, Sent
  <2> QED  BY <1>3, <2>2 DEF Promise!Next
<1>7. CASE ~(copies'[x] > 0)
  <2>1. Sent' = Sent
    BY <1>2, <1>3, <1>5, <1>7 DEF CopiesAfter, Sent
  <2> QED  BY <1>4, <2>1 DEF Promise!outboxVars, Sent
<1> QED  BY <1>6, <1>7

LEMMA StepsKeepPromise ==
  ASSUME IInv, [Next]_vars
  PROVE  [Promise!Next]_(Promise!outboxVars)
<1>1. ASSUME NEW t \in Transactions, CommitTransaction(t)
      PROVE  Promise!Next
  <2>1. PICK S \in SUBSET Events : S \cap Committed = {} /\ Committed' = Committed \cup S
    BY <1>1, EventsEnterLine
  <2>2. UNCHANGED <<copies, published>>
    BY <1>1 DEF CommitTransaction
  <2>3. Promise!Produce(S)
    BY <2>1, <2>2 DEF Promise!Produce
  <2> QED  BY <2>3 DEF Promise!Next
<1>2. ASSUME UNCHANGED <<copies, published>>, Committed' = Committed
      PROVE  UNCHANGED Promise!outboxVars
  BY <1>2 DEF Promise!outboxVars
<1>3. ASSUME NEW e \in Events, Due(e) PROVE UNCHANGED Promise!outboxVars
  <2>1. /\ waiting' = waiting \ {e} /\ line' = Append(line, e) /\ e \in waiting
        /\ UNCHANGED <<copies, published>>
    BY <1>3 DEF Due
  <2>2. line \in Seq(Events) /\ Distinct(line) /\ e \notin Members(line)
    BY <2>1 DEF IInv, RowsOK
  <2>3. Members(line') = Members(line) \cup {e}
    BY <2>1, <2>2, RowAppended
  <2>4. Committed' = Committed
    BY <2>1, <2>3 DEF Committed
  <2> QED  BY <1>2, <2>1, <2>4
<1>4. ASSUME NEW p \in Publishers, CommitBatch(p) PROVE Promise!Next
  <2>1. published' = published \cup marks[p] /\ UNCHANGED copies /\ Committed' = Committed
    BY <1>4, BatchLeavesLine DEF CommitBatch
  <2>2. marks[p] \subseteq Sent
    BY DEF IInv, DeliveryOK, PublishersOK, Sent
  <2>3. Promise!Record(marks[p])
    BY <2>1, <2>2 DEF Promise!Record, Sent
  <2>4. marks[p] \in SUBSET Events
    BY DEF IInv, PublishersOK
  <2> QED  BY <2>3, <2>4 DEF Promise!Next
<1>5. ASSUME NEW p \in Publishers, Publish(p) \/ SendFails(p) \/ UpdateFails(p)
      PROVE  [Promise!Next]_(Promise!outboxVars)
  BY <1>5, SendingKeepsPromise
<1>6. ASSUME NEW p \in Publishers, Fetch(p) \/ RollBack(p) PROVE UNCHANGED Promise!outboxVars
  <2>1. UNCHANGED <<line, waiting, published, copies>>
    BY <1>6 DEF Fetch, RollBack
  <2>2. Committed' = Committed
    BY <2>1 DEF Committed
  <2> QED  BY <1>2, <2>1, <2>2
<1>7. ASSUME UNCHANGED vars PROVE UNCHANGED Promise!outboxVars
  <2>1. UNCHANGED <<line, waiting, published, copies>>
    BY <1>7 DEF vars
  <2>2. Committed' = Committed
    BY <2>1 DEF Committed
  <2> QED  BY <1>2, <2>1, <2>2
<1> QED  BY <1>1, <1>3, <1>4, <1>5, <1>6, <1>7
         DEF Next, PublisherStep, Fault, RollBackDoomed, Crash

\* Nothing is sent before its transaction commits, and nothing counts as published without
\* a copy in the queue: the publisher implements what the outbox promises.
THEOREM PublisherKeepsPromise ==
  Spec => KeepsPromise
<1>1. Init => Promise!Init
  <2> SUFFICES ASSUME Init PROVE Promise!Init
    OBVIOUS
  <2>1. Committed = {} /\ published = {}
    BY NoRows DEF Init, Committed
  <2>2. {e \in Events : copies[e] > 0} = {}
    BY DEF Init
  <2> QED  BY <2>1, <2>2 DEF Promise!Init
<1>2. IInv /\ [Next]_vars => [Promise!Next]_(Promise!outboxVars)
  BY StepsKeepPromise
<1> QED  BY <1>1, <1>2, Safety, PTL DEF Spec, KeepsPromise, Promise!Spec
=============================================================================

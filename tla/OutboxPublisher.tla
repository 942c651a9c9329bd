--------------------------- MODULE OutboxPublisher ---------------------------
(***************************************************************************)
(* OutboxPublisher: every two seconds each instance of the service fetches   *)
(* unpublished rows of outbox_events under row locks, sends each to the      *)
(* queue, marks it as published or moves it five seconds ahead, and commits  *)
(* all the marks together.                                                   *)
(*                                                                           *)
(* The rows that are due are a sequence, by next_delivery_at.                *)
(***************************************************************************)
EXTENDS Integers, FiniteSets, Rows

CONSTANTS
  Publishers,       \* one for each instance of the service
  Events,           \* rows of outbox_events
  Transactions,     \* transactions that insert them
  Emitted,          \* the events of each transaction, in the order it inserts them
  Limit,            \* LIMIT of the fetch
  FifoQueue         \* the queue is FIFO, without content-based deduplication

ASSUME LimitAssumption == Limit \in Nat \ {0}
ASSUME FifoAssumption == FifoQueue \in BOOLEAN
ASSUME EmittedAssumption ==
  /\ Emitted \in [Transactions -> Seq(Events)]
  /\ \A t \in Transactions : \A i, j \in DOMAIN Emitted[t] :
       Emitted[t][i] = Emitted[t][j] => i = j
  /\ \A t, u \in Transactions : t # u => Members(Emitted[t]) \cap Members(Emitted[u]) = {}

VARIABLES
  line,             \* unpublished rows that are due, by next_delivery_at
  waiting,          \* unpublished rows whose next_delivery_at is ahead
  published,        \* rows with published_at
  batch,            \* rows each publisher has locked
  todo,             \* those of them it has not sent yet
  marks,            \* rows its transaction has marked as published
  fails,            \* rows its transaction has moved ahead
  doomed,           \* one of its statements failed: it cannot commit any more
  copies,           \* copies of each event in the queue: 0, 1 or "many"
  troubled          \* history: a send failed, or its batch was rolled back

publisherVars == <<batch, todo, marks, fails, doomed>>
vars == <<line, waiting, published, publisherVars, copies, troubled>>

Committed == Members(line) \cup waiting \cup published

\* Mutant: SELECT without FOR UPDATE.
NothingLocked == {}
\* Rows that some publisher's transaction has locked.
Locked == UNION {batch[p] : p \in Publishers}

\* One copy more.
More(n) == IF n = 0 THEN 1 ELSE 2

(***************************************************************************)
(* Steps.                                                                   *)
(***************************************************************************)
\* A transaction commits: its rows are due at once, in the order it made them (its
\* clock advances between two of them), each at the place that this clock gives it.
CommitTransaction(t) ==
  /\ Members(Emitted[t]) \cap Committed = {} /\ Emitted[t] # <<>>
  /\ line' \in Interleavings(line, Emitted[t])
  /\ UNCHANGED <<waiting, published, publisherVars, copies, troubled>>

\* The next_delivery_at of a failed row passes.
Due(e) ==
  /\ e \in waiting
  /\ waiting' = waiting \ {e}
  /\ line' = Append(line, e)
  /\ UNCHANGED <<published, publisherVars, copies, troubled>>

\* Mutant: ORDER BY next_delivery_at DESC.
FetchNewest(p) ==
  LET free == Without(line, Locked)
      n    == Len(free)
      rows == IF n = 1 THEN free ELSE <<free[n], free[n-1]>>
  IN  /\ batch[p] = {} /\ free # <<>>
      /\ batch' = [batch EXCEPT ![p] = Members(rows)]
      /\ todo' = [todo EXCEPT ![p] = rows]
      /\ UNCHANGED <<line, waiting, published, marks, fails, doomed, copies, troubled>>
\* BEGIN, FetchPendingForUpdate.
Fetch(p) ==
  LET free == Without(line, Locked)
      rows == SubSeq(free, 1, IF Len(free) < Limit THEN Len(free) ELSE Limit)
  IN  /\ batch[p] = {} /\ free # <<>>
      /\ batch' = [batch EXCEPT ![p] = Members(rows)]
      /\ todo' = [todo EXCEPT ![p] = rows]
      /\ UNCHANGED <<line, waiting, published, marks, fails, doomed, copies, troubled>>

\* The next row of the batch.
Sending(p) == todo[p] # <<>>
NextRow(p) == Head(todo[p])
Advance(p) == todo' = [todo EXCEPT ![p] = Tail(@)]

\* Mutant: nothing is marked.
PublishUnmarked(p) ==
  /\ Sending(p)
  /\ copies' = [copies EXCEPT ![NextRow(p)] = More(@)]
  /\ Advance(p)
  /\ UNCHANGED <<line, waiting, published, batch, marks, fails, doomed, troubled>>
\* SendMessage, MarkAsPublished.  A statement of a doomed transaction fails too.
\* The message names no group and no deduplication id: a FIFO queue refuses it.
Publish(p) ==
  LET e == NextRow(p)
  IN  /\ Sending(p) /\ ~FifoQueue
      /\ copies' = [copies EXCEPT ![e] = More(@)]
      /\ marks' = [marks EXCEPT ![p] = IF doomed[p] THEN @ ELSE @ \cup {e}]
      /\ Advance(p)
      /\ UNCHANGED <<line, waiting, published, batch, fails, doomed, troubled>>

\* Mutant: the continue is missing, so a failed row is marked as well.
FailureIsMarked(p) ==
  /\ Sending(p)
  /\ marks' = [marks EXCEPT ![p] = @ \cup {NextRow(p)}]
  /\ troubled' = troubled \cup {NextRow(p)}
  /\ Advance(p)
  /\ UNCHANGED <<line, waiting, published, batch, fails, doomed, copies>>
\* The queue has a copy more of e or not, which the publisher may not learn.
PerhapsSent(e) ==
  \/ UNCHANGED copies
  \/ ~FifoQueue /\ copies' = [copies EXCEPT ![e] = More(@)]

\* SendMessage is refused or fails, or its answer is lost; RecordFailure.
SendFails(p) ==
  LET e == NextRow(p)
  IN  /\ Sending(p)
      /\ PerhapsSent(e)
      /\ fails' = [fails EXCEPT ![p] = IF doomed[p] THEN @ ELSE @ \cup {e}]
      /\ troubled' = troubled \cup {e}
      /\ Advance(p)
      /\ UNCHANGED <<line, waiting, published, batch, marks, doomed>>

\* SendMessage, then an UPDATE that fails: only logged, the loop goes on.
UpdateFails(p) ==
  LET e == NextRow(p)
  IN  /\ Sending(p) /\ ~doomed[p]
      /\ PerhapsSent(e)
      /\ doomed' = [doomed EXCEPT ![p] = TRUE]
      /\ troubled' = troubled \cup {e}
      /\ Advance(p)
      /\ UNCHANGED <<line, waiting, published, batch, marks, fails>>

\* The transaction has ended: its locks are free.
Release(p) ==
  /\ batch' = [batch EXCEPT ![p] = {}]
  /\ todo' = [todo EXCEPT ![p] = <<>>]
  /\ marks' = [marks EXCEPT ![p] = {}]
  /\ fails' = [fails EXCEPT ![p] = {}]
  /\ doomed' = [doomed EXCEPT ![p] = FALSE]

\* Mutant: a failed row is given up.
CommitGivesUp(p) ==
  /\ batch[p] # {} /\ ~Sending(p) /\ ~doomed[p]
  /\ published' = published \cup marks[p]
  /\ line' = Without(line, marks[p] \cup fails[p])
  /\ Release(p)
  /\ UNCHANGED <<waiting, copies, troubled>>
\* COMMIT.
CommitBatch(p) ==
  /\ batch[p] # {} /\ ~Sending(p) /\ ~doomed[p]
  /\ published' = published \cup marks[p]
  /\ waiting' = waiting \cup fails[p]
  /\ line' = Without(line, marks[p] \cup fails[p])
  /\ Release(p)
  /\ UNCHANGED <<copies, troubled>>

\* The transaction is rolled back: COMMIT of a doomed transaction.
RollBack(p) ==
  /\ troubled' = troubled \cup batch[p]
  /\ Release(p)
  /\ UNCHANGED <<line, waiting, published, copies>>

RollBackDoomed(p) == batch[p] # {} /\ ~Sending(p) /\ doomed[p] /\ RollBack(p)

\* The instance stops, the connection is lost or COMMIT fails.
Crash(p) == batch[p] # {} /\ RollBack(p)

(***************************************************************************)
(* Specification.                                                           *)
(***************************************************************************)
Init ==
  /\ line = <<>> /\ waiting = {} /\ published = {}
  /\ batch = [p \in Publishers |-> {}]
  /\ todo = [p \in Publishers |-> <<>>]
  /\ marks = [p \in Publishers |-> {}]
  /\ fails = [p \in Publishers |-> {}]
  /\ doomed = [p \in Publishers |-> FALSE]
  /\ copies = [e \in Events |-> 0]
  /\ troubled = {}

\* A send may have either outcome, any number of times.
PublisherStep(p) ==
  Fetch(p) \/ Publish(p) \/ SendFails(p) \/ CommitBatch(p) \/ RollBackDoomed(p)
Fault(p) == UpdateFails(p) \/ Crash(p)

Next ==
  \/ \E t \in Transactions : CommitTransaction(t)
  \/ \E e \in Events : Due(e)
  \/ \E p \in Publishers : PublisherStep(p) \/ Fault(p)

Spec == Init /\ [][Next]_vars

\* The ticker goes on, publishers run, clocks advance; instances and the database
\* do not fail for ever.  Sends may.
LiveSpec ==
  /\ Spec
  /\ \A p \in Publishers : WF_vars(PublisherStep(p))
  /\ \A e \in Events : WF_vars(Due(e))
  /\ <>[][~ \E p \in Publishers : Fault(p)]_vars

(***************************************************************************)
(* Properties.                                                              *)
(***************************************************************************)
\* A row is in one place and in one batch at most; a batch is made of rows that
\* are due, and each of its rows is still to be sent, or marked, or moved ahead,
\* or its transaction is doomed (SKIP LOCKED: "lotes disjuntos").
PublisherTypeOK ==
  /\ line \in Seq(Events) /\ Cardinality(Members(line)) = Len(line)
  /\ waiting \subseteq Events /\ published \subseteq Events
  /\ Members(line) \cap (waiting \cup published) = {} /\ waiting \cap published = {}
  /\ copies \in [Events -> 0..2]
  /\ \A p \in Publishers :
       /\ batch[p] \subseteq Members(line)
       /\ todo[p] \in Seq(batch[p]) /\ marks[p] \cap fails[p] = {}
       /\ Members(todo[p]) \cap (marks[p] \cup fails[p]) = {}
       /\ ~doomed[p] => batch[p] = Members(todo[p]) \cup marks[p] \cup fails[p]
       /\ \A q \in Publishers : p # q => batch[p] \cap batch[q] = {}

\* The publisher keeps the promise of the outbox: nothing is sent before its
\* transaction commits, and nothing counts as published without a copy in the
\* queue, whatever fails.
Promise == INSTANCE AtLeastOnce WITH
  produced <- Committed, delivered <- {e \in Events : copies[e] > 0}
KeepsPromise == Promise!Spec

\* An event is sent more than once only after its own send has failed or a
\* transaction that sent it has been rolled back: publishers that overlap never
\* send one event twice (repositories.go, 200: "processando lotes disjuntos").
ResentOnlyAfterTrouble == \A e \in Events : copies[e] > 1 => e \in troubled

\* The events of one transaction leave in the order of their insertion, except
\* behind one whose delivery was disturbed, or that another publisher is sending.
OrderKept ==
  \A t \in Transactions : \A j \in DOMAIN Emitted[t] : \A i \in 1..(j-1) :
    LET d == Emitted[t][i]
        e == Emitted[t][j]
    IN  copies[e] = 0 /\ copies'[e] > 0 /\ copies[d] = 0 =>
          \/ d \in troubled
          \/ \E p, q \in Publishers : p # q /\ d \in batch[p] /\ e \in batch[q]
OrderWithinTransaction == [][OrderKept]_vars

\* No event is passed over for ever: however many others keep failing and coming
\* back, each is published, or its send is tried again and again and every failure
\* recorded (FetchPendingForUpdate: the fetch is bounded and the oldest come first).
EveryEventIsTried ==
  \A e \in Events : e \in Committed ~> e \in published \cup waiting

\* Every committed event is published in the end (outbox.go, 9: "NENHUM evento seja
\* perdido"; 6: a worker reads pending events "e os publica no SQS").
EveryEventIsPublished == \A e \in Events : e \in Committed ~> e \in published
=============================================================================

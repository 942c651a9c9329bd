----------------------------- MODULE AtLeastOnce -----------------------------
(***************************************************************************)
(* What a transactional outbox promises its readers (outbox.go, lines 1-10): *)
(* an event exists once its transaction has committed, it is recorded as     *)
(* published only after a copy of it has been delivered, and no event is     *)
(* forgotten.                                                                *)
(***************************************************************************)
CONSTANT Events

VARIABLES
  produced,         \* events whose transaction has committed
  delivered,        \* events the queue has at least one copy of
  published         \* events recorded as published

outboxVars == <<produced, delivered, published>>

Init == produced = {} /\ delivered = {} /\ published = {}

\* A transaction commits with its events.
Produce(S) ==
  /\ S \subseteq Events \ produced
  /\ produced' = produced \cup S
  /\ UNCHANGED <<delivered, published>>

\* Copies after the first are stutters.
Deliver(e) ==
  /\ e \in produced
  /\ delivered' = delivered \cup {e}
  /\ UNCHANGED <<produced, published>>

\* A batch is recorded as published.
Record(S) ==
  /\ S \subseteq delivered
  /\ published' = published \cup S
  /\ UNCHANGED <<produced, delivered>>

Next ==
  \/ \E S \in SUBSET Events : Produce(S) \/ Record(S)
  \/ \E e \in Events : Deliver(e)

Spec == Init /\ [][Next]_outboxVars
=============================================================================

-------------------------- MODULE SqsConsumerProofs --------------------------
(***************************************************************************)
(* The consumers of SqsConsumer add no behaviour to ProcessWager, call        *)
(* Execute at most once for each message, delete a message only for a reason, *)
(* and settle the amount it names: for every set of goroutines, messages and  *)
(* bodies.                                                                    *)
(***************************************************************************)
EXTENDS SqsConsumer, ProcessWagerInvariants

Stages == {"none", "received", "inserted", "executing", "delete"}

(***************************************************************************)
(* Refinement.                                                              *)
(***************************************************************************)
\* A goroutine past "none" has a message of the queue.
DeliveryOK ==
  /\ delivery \in [Processes -> Messages \cup {NoMessage}]
  /\ stage \in [Processes -> Stages]
  /\ \A p \in Processes : stage[p] # "none" => delivery[p] \in Messages

\* Every step of the service is one of ProcessWager, or leaves its variables
\* alone: the input of a message is one that some caller sends.
LEMMA ConsumerStepIsNext ==
  ASSUME DeliveryOK, [ConsumerNext]_serviceVars
  PROVE  [Next]_vars
<1>1. ASSUME NEW p \in Consumers, CallExecute(p) PROVE [Next]_vars
  <2>1. p \in Processes /\ delivery[p] \in Messages /\ BodyParses(delivery[p])
    BY <1>1, ConsumersAssumption DEF CallExecute, DeliveryOK
  <2>2. Input(delivery[p]) \in Requests
    BY <2>1, BodiesAssumption
  <2> QED  BY <1>1, <2>1, <2>2 DEF CallExecute, Next
<1>2. ASSUME NEW p \in Consumers,
             \/ \E m \in Messages : ReceiveMessage(p, m)
             \/ TryInsert(p) \/ DiscardBody(p) \/ Conclude(p) \/ LeaveInQueue(p)
             \/ DeleteMessage(p) \/ DeleteFails(p) \/ InboxFails(p) \/ CrashBeforeExecute(p)
      PROVE  UNCHANGED vars
  BY <1>2 DEF ReceiveMessage, TryInsert, DiscardBody, Conclude, LeaveInQueue,
              DeleteMessage, DeleteFails, InboxFails, CrashBeforeExecute
<1>3. ASSUME NEW p \in Consumers, FailInExecute(p) PROVE Next
  BY <1>3, ConsumersAssumption DEF FailInExecute, Next
<1>4. ASSUME NEW p \in Processes, ExecuteStep(p) \/ CallerStep(p) PROVE Next
  BY <1>4 DEF ExecuteStep, CallerStep, Next
<1>5. ASSUME NEW m \in Messages, VisibilityTimeout(m) PROVE UNCHANGED vars
  BY <1>5 DEF VisibilityTimeout
<1>6. CASE UNCHANGED serviceVars
  BY <1>6 DEF serviceVars
<1> QED
  BY <1>1, <1>2, <1>3, <1>4, <1>5, <1>6 DEF ConsumerNext, ServiceNext, ConsumerStep, ConsumerFault

\* What a step does to the goroutines: one of them moves, and keeps its message or
\* gives it up.
LEMMA NextDeliveryOK ==
  ASSUME DeliveryOK, [ConsumerNext]_serviceVars
  PROVE  DeliveryOK'
<1> USE ConsumersAssumption
<1>1. ASSUME NEW p \in Processes, EndDelivery(p) PROVE DeliveryOK'
  BY <1>1 DEF EndDelivery, DeliveryOK, Stages
<1>2. ASSUME NEW p \in Processes, NEW s \in Stages, stage[p] # "none",
             stage' = [stage EXCEPT ![p] = s], delivery' = delivery
      PROVE  DeliveryOK'
  BY <1>2 DEF DeliveryOK
<1>3. ASSUME NEW p \in Processes, NEW m \in Messages, ReceiveMessage(p, m) PROVE DeliveryOK'
  BY <1>3 DEF ReceiveMessage, DeliveryOK, Stages
<1>4. ASSUME NEW p \in Processes, ConsumerStep(p) \/ ConsumerFault(p) PROVE DeliveryOK'
  <2>1. ASSUME TryInsert(p) \/ DiscardBody(p) \/ CallExecute(p) \/ Conclude(p)
        PROVE  /\ stage[p] # "none" /\ delivery' = delivery
               /\ \E s \in Stages : stage' = [stage EXCEPT ![p] = s]
    BY <2>1 DEF TryInsert, DiscardBody, CallExecute, Conclude, Stages
  <2>2. ASSUME \/ LeaveInQueue(p) \/ DeleteMessage(p) \/ ConsumerFault(p)
        PROVE  EndDelivery(p)
    BY <2>2 DEF LeaveInQueue, DeleteMessage, ConsumerFault, DeleteFails, InboxFails,
                CrashBeforeExecute, FailInExecute
  <2> QED  BY <1>1, <1>2, <1>4, <2>1, <2>2 DEF ConsumerStep
<1>5. ASSUME UNCHANGED <<delivery, stage>> PROVE DeliveryOK'
  BY <1>5 DEF DeliveryOK
<1>6. ASSUME NEW p \in Processes, NEW m \in Messages,
             ExecuteStep(p) \/ CallerStep(p) \/ VisibilityTimeout(m) \/ UNCHANGED serviceVars
      PROVE  UNCHANGED <<delivery, stage>>
  BY <1>6 DEF ExecuteStep, CallerStep, VisibilityTimeout, serviceVars, consumerVars
<1> QED  BY <1>3, <1>4, <1>5, <1>6 DEF ConsumerNext, ServiceNext, serviceVars, consumerVars,
            ExecuteStep, CallerStep, VisibilityTimeout

LEMMA AlwaysDeliveryOK == ConsumerSpec => []DeliveryOK
<1>1. ConsumerInit => DeliveryOK
  BY DEF ConsumerInit, DeliveryOK, Stages
<1> QED  BY <1>1, NextDeliveryOK, PTL DEF ConsumerSpec

\* With any queue, deliveries and failures, the wagers behave as if callers alone
\* had sent them: every theorem about Spec holds of the service with its consumers.
THEOREM AlwaysConsumersActAsCallers == ConsumerSpec => ConsumersActAsCallers
<1>1. ConsumerInit => Init
  BY DEF ConsumerInit
<1> QED  BY <1>1, ConsumerStepIsNext, AlwaysDeliveryOK, PTL
         DEF ConsumerSpec, Spec, ConsumersActAsCallers

(***************************************************************************)
(* At most one call.                                                        *)
(***************************************************************************)
\* A message without an inbox row has not been executed; the one goroutine that
\* has just inserted the row is the only one that may call Execute.
CallsInv ==
  /\ calls \in [Messages -> 0..1]
  /\ \A m \in Messages \ inbox : calls[m] = 0
  /\ \A p \in Processes :
       stage[p] = "inserted" => delivery[p] \in inbox /\ calls[delivery[p]] = 0
  /\ \A p, q \in Processes :
       stage[p] = "inserted" /\ stage[q] = "inserted" /\ delivery[p] = delivery[q] => p = q

\* A step after which the goroutine that moved is not about to call.
LEMMA ElsewhereCallsInv ==
  ASSUME CallsInv, NEW p \in Processes, stage'[p] # "inserted",
         \A q \in Processes \ {p} : stage'[q] = stage[q] /\ delivery'[q] = delivery[q],
         inbox \subseteq inbox', calls' = calls
  PROVE  CallsInv'
  BY DEF CallsInv

LEMMA NextCallsInv ==
  ASSUME DeliveryOK, CallsInv, [ConsumerNext]_serviceVars
  PROVE  CallsInv'
<1> USE ConsumersAssumption DEF DeliveryOK
<1>1. ASSUME NEW p \in Consumers, TryInsert(p) PROVE CallsInv'
  <2>1. CASE delivery[p] \in inbox
    BY <1>1, <2>1, ElsewhereCallsInv DEF TryInsert
  <2>2. CASE delivery[p] \notin inbox
    <3>1. /\ inbox' = inbox \cup {delivery[p]} /\ delivery' = delivery /\ calls' = calls
          /\ stage' = [stage EXCEPT ![p] = "inserted"] /\ delivery[p] \in Messages
      BY <1>1, <2>2 DEF TryInsert
    <3> QED  BY <2>2, <3>1 DEF CallsInv
  <2> QED  BY <2>1, <2>2
<1>2. ASSUME NEW p \in Consumers, CallExecute(p) PROVE CallsInv'
  <2>1. /\ inbox' = inbox /\ delivery' = delivery /\ delivery[p] \in Messages
        /\ stage[p] = "inserted" /\ stage' = [stage EXCEPT ![p] = "executing"]
        /\ calls' = [calls EXCEPT ![delivery[p]] = @ + 1]
    BY <1>2 DEF CallExecute
  <2>2. calls[delivery[p]] = 0 /\ delivery[p] \in inbox
    BY <2>1 DEF CallsInv
  <2>3. calls' \in [Messages -> 0..1] /\ \A m \in Messages \ {delivery[p]} : calls'[m] = calls[m]
    BY <2>1, <2>2 DEF CallsInv
  <2>4. \A q \in Processes : stage'[q] = "inserted" => q # p /\ stage[q] = "inserted"
    BY <2>1
  <2>5. \A q \in Processes : stage'[q] = "inserted" => delivery[q] # delivery[p]
    BY <2>1, <2>4 DEF CallsInv
  <2> QED  BY <2>1, <2>2, <2>3, <2>4, <2>5 DEF CallsInv
<1>3. ASSUME NEW p \in Consumers,
             \/ \E m \in Messages : ReceiveMessage(p, m)
             \/ DiscardBody(p) \/ Conclude(p) \/ LeaveInQueue(p) \/ DeleteMessage(p)
             \/ ConsumerFault(p)
      PROVE  CallsInv'
  <2>1. /\ stage'[p] # "inserted" /\ inbox \subseteq inbox' /\ calls' = calls
        /\ \A q \in Processes \ {p} : stage'[q] = stage[q] /\ delivery'[q] = delivery[q]
    BY <1>3 DEF ReceiveMessage, DiscardBody, Conclude, LeaveInQueue, DeleteMessage, ConsumerFault,
                DeleteFails, InboxFails, CrashBeforeExecute, FailInExecute, EndDelivery
  <2> QED  BY <2>1, ElsewhereCallsInv
<1>4. CASE UNCHANGED <<inbox, delivery, stage, calls>>
  BY <1>4 DEF CallsInv
<1>5. ASSUME NEW m \in Messages, VisibilityTimeout(m) PROVE CallsInv'
  BY <1>4, <1>5 DEF VisibilityTimeout
<1>6. ASSUME NEW p \in Processes, ExecuteStep(p) \/ CallerStep(p) PROVE CallsInv'
  BY <1>4, <1>6 DEF ExecuteStep, CallerStep, consumerVars
<1>7. CASE UNCHANGED serviceVars
  BY <1>4, <1>7 DEF serviceVars, consumerVars
<1> QED
  BY <1>1, <1>2, <1>3, <1>5, <1>6, <1>7 DEF ConsumerNext, ServiceNext, ConsumerStep

LEMMA AlwaysCallsInv == ConsumerSpec => []CallsInv
<1>1. ConsumerInit => CallsInv
  BY DEF ConsumerInit, CallsInv
<1> QED  BY <1>1, NextCallsInv, AlwaysDeliveryOK, PTL DEF ConsumerSpec

\* For every number of goroutines, deliveries and failures, Execute is called at
\* most once for a message.
THEOREM AlwaysCalledAtMostOnce == ConsumerSpec => []CalledAtMostOnce
<1>1. CallsInv => CalledAtMostOnce
  BY DEF CallsInv, CalledAtMostOnce
<1> QED  BY <1>1, AlwaysCallsInv, PTL

(***************************************************************************)
(* Messages are deleted for a reason.                                       *)
(***************************************************************************)
Places == {"absent", "visible", "inflight", "deleted", "dead"}

\* The message has an outcome, will have one, or is known to have none.
Accounted(m) == Decided(m) \/ InProgress(m) \/ m \in abandoned

ReasonInv ==
  /\ queue \in [Messages -> Places]
  /\ \A m \in inbox : Accounted(m)
  /\ \A m \in Messages : queue[m] = "deleted" => m \in inbox
  /\ \A p \in Consumers :
       /\ stage[p] \in {"inserted", "executing", "delete"} => delivery[p] \in inbox
       /\ stage[p] = "executing" => BodyParses(delivery[p]) /\ req[p] = Input(delivery[p])

RowsKept == \A i \in DOMAIN txs : i \in DOMAIN txs' /\ txs'[i] = txs[i]

\* A decision is final.
LEMMA DecidedStays ==
  ASSUME RowsKept, NEW m, Decided(m)
  PROVE  Decided(m)'
  BY DEF RowsKept, Decided, BodyParses, Input

\* An answer after which the message is deleted is a decision about it.
LEMMA DiscardIsDecided ==
  ASSUME AnswerInv, ReasonInv, NEW p \in Consumers, stage[p] = "executing",
         pc[p] = "answered", out[p].error \in Discarded \cup {"none"}
  PROVE  Decided(delivery[p])
<1>1. p \in Processes /\ req[p] = Input(delivery[p])
  BY ConsumersAssumption DEF ReasonInv
<1>2. Tells(req[p], out[p])
  BY <1>1 DEF AnswerInv, AnswersTell
<1>3. CASE out[p].error = "none"
  BY <1>1, <1>2, <1>3 DEF Tells, Repeats, Decided
<1>4. CASE out[p].error \in Discarded
  BY <1>1, <1>2, <1>4 DEF Tells, LastingReason, Discarded, Decided
<1> QED  BY <1>3, <1>4

\* When one goroutine moves, its message stays accounted for if it is decided,
\* given up, or still worked on.
LEMMA AccountedStays ==
  ASSUME ReasonInv, RowsKept, NEW p \in Consumers,
         \A q \in Consumers \ {p} : stage'[q] = stage[q] /\ delivery'[q] = delivery[q],
         abandoned \subseteq abandoned', inbox' \subseteq inbox \cup {delivery[p]},
         stage[p] \in {"inserted", "executing"} \/ delivery[p] \in inbox' \ inbox =>
           \/ Decided(delivery[p]) \/ delivery[p] \in abandoned'
           \/ delivery'[p] = delivery[p] /\ stage'[p] \in {"inserted", "executing"}
  PROVE  \A m \in inbox' : Accounted(m)'
<1> SUFFICES ASSUME NEW m \in inbox' PROVE Accounted(m)'
  OBVIOUS
<1>1. ASSUME NEW q \in Consumers, delivery'[q] = m, stage'[q] \in {"inserted", "executing"}
      PROVE  InProgress(m)'
  BY <1>1 DEF InProgress
<1>2. CASE m = delivery[p] /\ (stage[p] \in {"inserted", "executing"} \/ m \notin inbox)
  <2>1. \/ Decided(m) \/ m \in abandoned'
        \/ delivery'[p] = m /\ stage'[p] \in {"inserted", "executing"}
    BY <1>2
  <2> QED  BY <1>1, <2>1, DecidedStays DEF Accounted
<1>3. CASE m \in inbox /\ ~(m = delivery[p] /\ stage[p] \in {"inserted", "executing"})
  <2>1. Decided(m) \/ InProgress(m) \/ m \in abandoned
    BY <1>3 DEF ReasonInv, Accounted
  <2>2. CASE Decided(m)
    BY <2>2, DecidedStays DEF Accounted
  <2>3. CASE InProgress(m)
    <3>1. PICK q \in Consumers : delivery[q] = m /\ stage[q] \in {"inserted", "executing"}
      BY <2>3 DEF InProgress
    <3>2. q # p
      BY <1>3, <3>1
    <3> QED  BY <1>1, <3>1, <3>2 DEF Accounted
  <2> QED  BY <2>1, <2>2, <2>3 DEF Accounted
<1> QED  BY <1>2, <1>3

\* The consumers' steps.
LEMMA ConsumerReasonInv ==
  ASSUME AnswerInv, DeliveryOK, ReasonInv, NEW p \in Consumers,
         \/ \E m \in Messages : ReceiveMessage(p, m)
         \/ ConsumerStep(p) \/ ConsumerFault(p)
  PROVE  ReasonInv'
<1> USE ConsumersAssumption DEF DeliveryOK
<1>1. req \in [Processes -> Requests \cup {Null}]
  BY DEF AnswerInv, LockInv, TypeOK, ProcessTypeOK
<1>2. /\ \A q \in Consumers \ {p} :
           stage'[q] = stage[q] /\ delivery'[q] = delivery[q] /\ req'[q] = req[q]
      /\ abandoned \subseteq abandoned' /\ inbox \subseteq inbox'
      /\ inbox' \subseteq inbox \cup {delivery[p]} /\ txs' = txs
  BY <1>1 DEF ReceiveMessage, ConsumerStep, TryInsert, DiscardBody, CallExecute, Conclude,
     LeaveInQueue, DeleteMessage, ConsumerFault, DeleteFails, InboxFails, CrashBeforeExecute,
     FailInExecute, EndDelivery, Receive, Fail, db, vars
<1>3. RowsKept
  BY <1>2 DEF RowsKept
<1>4. stage[p] \in {"inserted", "executing"} \/ delivery[p] \in inbox' \ inbox =>
        \/ Decided(delivery[p]) \/ delivery[p] \in abandoned'
        \/ delivery'[p] = delivery[p] /\ stage'[p] \in {"inserted", "executing"}
  <2>1. CASE TryInsert(p)
    BY <2>1 DEF TryInsert
  <2>2. CASE DiscardBody(p)
    BY <2>2 DEF DiscardBody, Decided
  <2>3. CASE CallExecute(p)
    BY <2>3 DEF CallExecute
  <2>4. CASE Conclude(p)
    BY <2>4, DiscardIsDecided DEF Conclude
  <2>5. CASE LeaveInQueue(p) \/ CrashBeforeExecute(p) \/ FailInExecute(p) \/ InboxFails(p)
    BY <2>5 DEF LeaveInQueue, CrashBeforeExecute, FailInExecute, InboxFails
  <2>6. CASE DeleteMessage(p) \/ DeleteFails(p) \/ \E m \in Messages : ReceiveMessage(p, m)
    BY <2>6 DEF DeleteMessage, DeleteFails, ReceiveMessage
  <2> QED  BY <2>1, <2>2, <2>3, <2>4, <2>5, <2>6 DEF ConsumerStep, ConsumerFault
<1>5. \A m \in inbox' : Accounted(m)'
  BY <1>2, <1>3, <1>4, AccountedStays
<1>6. /\ queue' \in [Messages -> Places]
      /\ \A m \in Messages : queue'[m] = "deleted" => m \in inbox'
  <2>1. CASE DeleteMessage(p)
    BY <1>2, <2>1 DEF ReasonInv, Places, DeleteMessage
  <2>2. CASE \E m \in Messages : ReceiveMessage(p, m)
    BY <1>2, <2>2 DEF ReasonInv, Places, ReceiveMessage
  <2>3. CASE ~DeleteMessage(p) /\ ~(\E m \in Messages : ReceiveMessage(p, m))
    <3>1. queue' = queue
      BY <2>3 DEF ConsumerStep, TryInsert, DiscardBody, CallExecute, Conclude, LeaveInQueue,
         ConsumerFault, DeleteFails, InboxFails, CrashBeforeExecute, FailInExecute
    <3> QED  BY <1>2, <3>1 DEF ReasonInv
  <2> QED  BY <2>1, <2>2, <2>3
<1>7. ASSUME NEW q \in Consumers
      PROVE  /\ stage'[q] \in {"inserted", "executing", "delete"} => delivery'[q] \in inbox'
             /\ stage'[q] = "executing" =>
                  BodyParses(delivery'[q]) /\ req'[q] = Input(delivery'[q])
  <2>1. CASE q # p
    BY <1>2, <2>1 DEF ReasonInv
  <2>2. CASE q = p /\ CallExecute(p)
    BY <1>1, <2>2 DEF ReasonInv, CallExecute, Receive
  <2>3. CASE q = p /\ (TryInsert(p) \/ DiscardBody(p) \/ Conclude(p))
    BY <2>3 DEF ReasonInv, TryInsert, DiscardBody, Conclude
  <2>4. CASE q = p /\ ~(CallExecute(p) \/ TryInsert(p) \/ DiscardBody(p) \/ Conclude(p))
    <3>1. stage'[p] \in {"none", "received"}
      BY <2>4 DEF ReceiveMessage, ConsumerStep, LeaveInQueue, DeleteMessage, ConsumerFault,
         DeleteFails, InboxFails, CrashBeforeExecute, FailInExecute, EndDelivery
    <3> QED  BY <2>4, <3>1
  <2> QED  BY <2>1, <2>2, <2>3, <2>4
<1> QED  BY <1>5, <1>6, <1>7 DEF ReasonInv, BodyParses, Input

\* The invariant is inductive.
LEMMA NextReasonInv ==
  ASSUME AnswerInv, DeliveryOK, ReasonInv, [ConsumerNext]_serviceVars
  PROVE  ReasonInv'
<1>1. ASSUME UNCHANGED consumerVars, RowsKept, \A p \in Consumers : req'[p] = req[p]
      PROVE  ReasonInv'
  <2>1. /\ inbox' = inbox /\ queue' = queue /\ stage' = stage /\ delivery' = delivery
        /\ abandoned' = abandoned
    BY <1>1 DEF consumerVars
  <2>2. \A m \in inbox : Accounted(m)'
    BY <1>1, <2>1, DecidedStays DEF ReasonInv, Accounted, InProgress
  <2> QED  BY <1>1, <2>1, <2>2 DEF ReasonInv, BodyParses, Input
<1>2. ASSUME NEW p \in Processes, ExecuteStep(p) PROVE ReasonInv'
  <2>1. RowsKept /\ req' = req
    BY <1>2, StepKeepsRows DEF ExecuteStep, RowsKept, Own, AnswerInv
  <2> QED  BY <1>1, <1>2, <2>1 DEF ExecuteStep
<1>3. ASSUME NEW p \in Processes, CallerStep(p) PROVE ReasonInv'
  <2>1. txs' = txs /\ \A q \in Consumers : req'[q] = req[q]
    BY <1>3, ConsumersAssumption
    DEF CallerStep, Direct, Receive, Fail, db, AnswerInv, LockInv, TypeOK, ProcessTypeOK
  <2> QED  BY <1>1, <1>3, <2>1 DEF CallerStep, RowsKept
<1>4. ASSUME NEW m \in Messages, VisibilityTimeout(m) PROVE ReasonInv'
  <2>1. /\ inbox' = inbox /\ stage' = stage /\ delivery' = delivery /\ abandoned' = abandoned
        /\ txs' = txs /\ req' = req
    BY <1>4 DEF VisibilityTimeout, vars
  <2>2. /\ queue' \in [Messages -> Places]
        /\ \A n \in Messages : queue'[n] = "deleted" => queue[n] = "deleted"
    BY <1>4 DEF ReasonInv, Places, VisibilityTimeout
  <2>3. \A n \in inbox : Accounted(n)'
    BY <2>1 DEF ReasonInv, Accounted, Decided, InProgress, BodyParses, Input
  <2> QED  BY <2>1, <2>2, <2>3 DEF ReasonInv, BodyParses, Input
<1>5. CASE UNCHANGED serviceVars
  BY <1>1, <1>5 DEF serviceVars, vars, RowsKept
<1> QED
  BY <1>2, <1>3, <1>4, <1>5, ConsumerReasonInv DEF ConsumerNext, ServiceNext

LEMMA AlwaysReasonInv == ConsumerSpec => []ReasonInv
<1>1. ConsumerInit => ReasonInv
  BY ConsumersAssumption DEF ConsumerInit, ReasonInv, Places
<1>2. ConsumerSpec => []AnswerInv
  BY AlwaysConsumersActAsCallers, AlwaysAnswerInv, PTL DEF ConsumersActAsCallers
<1> QED  BY <1>1, <1>2, NextReasonInv, AlwaysDeliveryOK, PTL DEF ConsumerSpec

\* A message leaves the queue only with a decision about it, while a goroutine
\* works on it, or because a goroutine was interrupted after the inbox row: for
\* every set of messages, goroutines and callers, and any pattern of failures.
THEOREM AlwaysDeletedForAReason == ConsumerSpec => []DeletedForAReason
<1>1. ReasonInv => DeletedForAReason
  BY DEF ReasonInv, Accounted, DeletedForAReason
<1> QED  BY <1>1, AlwaysReasonInv, PTL

(***************************************************************************)
(* Type correctness.                                                        *)
(***************************************************************************)
\* A message waits only while it may still be delivered.
QueueInv ==
  /\ queue \in [Messages -> Places]
  /\ receives \in [Messages -> 0..MaxReceives]
  /\ \A m \in Messages : queue[m] = "visible" => receives[m] < MaxReceives

LEMMA NextQueueInv ==
  ASSUME DeliveryOK, QueueInv, [ConsumerNext]_serviceVars
  PROVE  QueueInv'
<1> USE ConsumersAssumption, ReceivesAssumption DEF QueueInv, Places
<1>1. ASSUME NEW p \in Consumers, NEW m \in Messages, ReceiveMessage(p, m) PROVE QueueInv'
  BY <1>1 DEF ReceiveMessage
<1>2. ASSUME NEW m \in Messages, VisibilityTimeout(m) PROVE QueueInv'
  BY <1>2 DEF VisibilityTimeout
<1>3. ASSUME NEW p \in Consumers, DeleteMessage(p) PROVE QueueInv'
  BY <1>3 DEF DeleteMessage, DeliveryOK
<1>4. CASE UNCHANGED <<queue, receives>>
  BY <1>4
<1>5. ASSUME NEW p \in Consumers,
             \/ TryInsert(p) \/ DiscardBody(p) \/ CallExecute(p) \/ Conclude(p)
             \/ LeaveInQueue(p) \/ ConsumerFault(p)
      PROVE  UNCHANGED <<queue, receives>>
  BY <1>5 DEF TryInsert, DiscardBody, CallExecute, Conclude, LeaveInQueue, ConsumerFault,
              DeleteFails, InboxFails, CrashBeforeExecute, FailInExecute
<1>6. ASSUME NEW p \in Processes, ExecuteStep(p) \/ CallerStep(p) \/ UNCHANGED serviceVars
      PROVE  UNCHANGED <<queue, receives>>
  BY <1>6 DEF ExecuteStep, CallerStep, serviceVars, consumerVars
<1>7. CASE UNCHANGED serviceVars
  BY <1>4, <1>7 DEF serviceVars, consumerVars
<1> QED  BY <1>1, <1>2, <1>3, <1>4, <1>5, <1>6, <1>7 DEF ConsumerNext, ServiceNext, ConsumerStep

\* A goroutine without a message has none named; rows of the inbox, and messages
\* given up, are messages of the queue.
InboxInv ==
  /\ \A p \in Processes : stage[p] = "none" => delivery[p] = NoMessage
  /\ \A p \in Direct : stage[p] = "none"
  /\ inbox \subseteq Messages /\ abandoned \subseteq inbox

LEMMA NextInboxInv ==
  ASSUME DeliveryOK, ReasonInv, InboxInv, [ConsumerNext]_serviceVars
  PROVE  InboxInv'
<1> USE ConsumersAssumption DEF DeliveryOK
<1>1. ASSUME NEW p \in Consumers,
             \/ \E m \in Messages : ReceiveMessage(p, m)
             \/ ConsumerStep(p) \/ ConsumerFault(p)
      PROVE  InboxInv'
  <2>1. /\ \A q \in Processes \ {p} : stage'[q] = stage[q] /\ delivery'[q] = delivery[q]
        /\ stage'[p] = "none" => delivery'[p] = NoMessage
    BY <1>1 DEF ReceiveMessage, ConsumerStep, TryInsert, DiscardBody, CallExecute, Conclude,
       LeaveInQueue, DeleteMessage, ConsumerFault, DeleteFails, InboxFails, CrashBeforeExecute,
       FailInExecute, EndDelivery
  <2>2. inbox' \subseteq Messages /\ abandoned' \subseteq inbox'
    <3>1. CASE TryInsert(p)
      BY <3>1 DEF TryInsert, InboxInv
    <3>2. CASE InboxFails(p)
      BY <3>2 DEF InboxFails, InboxInv
    <3>3. CASE LeaveInQueue(p) \/ CrashBeforeExecute(p) \/ FailInExecute(p)
      BY <3>3 DEF LeaveInQueue, CrashBeforeExecute, FailInExecute, InboxInv, ReasonInv
    <3>4. CASE \/ DiscardBody(p) \/ CallExecute(p) \/ Conclude(p) \/ DeleteMessage(p)
               \/ DeleteFails(p) \/ \E m \in Messages : ReceiveMessage(p, m)
      BY <3>4 DEF DiscardBody, CallExecute, Conclude, DeleteMessage, DeleteFails,
                  ReceiveMessage, InboxInv
    <3> QED  BY <1>1, <3>1, <3>2, <3>3, <3>4 DEF ConsumerStep, ConsumerFault
  <2> QED  BY <2>1, <2>2 DEF InboxInv, Direct
<1>2. CASE UNCHANGED <<inbox, delivery, stage, abandoned>>
  BY <1>2 DEF InboxInv
<1>3. ASSUME NEW p \in Processes, NEW m \in Messages,
             ExecuteStep(p) \/ CallerStep(p) \/ VisibilityTimeout(m)
      PROVE  UNCHANGED <<inbox, delivery, stage, abandoned>>
  BY <1>3 DEF ExecuteStep, CallerStep, VisibilityTimeout, consumerVars
<1>4. ASSUME NEW p \in Processes, ExecuteStep(p) \/ CallerStep(p)
      PROVE  UNCHANGED <<inbox, delivery, stage, abandoned>>
  BY <1>4 DEF ExecuteStep, CallerStep, consumerVars
<1>5. ASSUME NEW m \in Messages, VisibilityTimeout(m)
      PROVE  UNCHANGED <<inbox, delivery, stage, abandoned>>
  BY <1>5 DEF VisibilityTimeout
<1>6. CASE UNCHANGED serviceVars
  BY <1>2, <1>6 DEF serviceVars, consumerVars
<1> QED  BY <1>1, <1>2, <1>4, <1>5, <1>6 DEF ConsumerNext, ServiceNext

\* A goroutine runs Execute exactly at its stage "executing".
StagesInv ==
  \A p \in Consumers :
    /\ pc[p] \notin {"idle", "answered"} => stage[p] = "executing"
    /\ stage[p] = "executing" => pc[p] # "idle"

\* A step of Execute is one of a call that goes on, and does not end it unanswered.
LEMMA StepGoesOn ==
  ASSUME LockInv, NEW p \in Processes, Step(p)
  PROVE  /\ pc[p] \notin {"idle", "answered"} /\ pc'[p] # "idle"
         /\ \A q \in Processes \ {p} : pc'[q] = pc[q]
<1>1. Quiet(p) \/ Locks(p) \/ Claims(p) \/ Records(p) \/ Pays(p)
  BY StepShape DEF LockInv
<1>2. /\ pc[p] \notin {"idle", "answered"} /\ pc'[p] # "idle"
      /\ pc' = [pc EXCEPT ![p] = pc'[p]]
  BY <1>1 DEF Quiet, Locks, Claims, Records, Pays, PaysEntry, Commits, Own, Inserted
<1> QED  BY <1>2 DEF LockInv, TypeOK, ProcessTypeOK

LEMMA NextStagesInv ==
  ASSUME LockInv, DeliveryOK, InboxInv, StagesInv, [ConsumerNext]_serviceVars
  PROVE  StagesInv'
<1> USE ConsumersAssumption DEF DeliveryOK
<1>1. pc \in [Processes -> Phases]
  BY DEF LockInv, TypeOK, ProcessTypeOK
<1>2. ASSUME NEW p \in Consumers, pc' = pc, stage[p] # "executing" \/ pc[p] = "answered",
             stage'[p] # "executing", \A q \in Processes \ {p} : stage'[q] = stage[q]
      PROVE  StagesInv'
  BY <1>2 DEF StagesInv
<1>3. ASSUME NEW p \in Consumers, CallExecute(p) \/ FailInExecute(p) PROVE StagesInv'
  <2>1. /\ \/ pc'[p] = "lookup" /\ stage'[p] = "executing"
           \/ pc'[p] = "idle" /\ stage'[p] = "none"
        /\ \A q \in Consumers \ {p} : pc'[q] = pc[q] /\ stage'[q] = stage[q]
    <3>1. CASE CallExecute(p)
      <4>1. pc' = [pc EXCEPT ![p] = "lookup"] /\ stage' = [stage EXCEPT ![p] = "executing"]
        BY <3>1 DEF CallExecute, Receive, Goto
      <4> QED  BY <1>1, <4>1
    <3>2. CASE FailInExecute(p)
      BY <1>1, <3>2 DEF FailInExecute, Fail, Goto, EndDelivery
    <3> QED  BY <1>3, <3>1, <3>2
  <2> QED  BY <2>1 DEF StagesInv
<1>4. ASSUME NEW p \in Consumers,
             \/ \E m \in Messages : ReceiveMessage(p, m)
             \/ TryInsert(p) \/ DiscardBody(p) \/ Conclude(p) \/ LeaveInQueue(p)
             \/ DeleteMessage(p) \/ DeleteFails(p) \/ InboxFails(p) \/ CrashBeforeExecute(p)
      PROVE  StagesInv'
  <2>1. /\ pc' = pc /\ (stage[p] # "executing" \/ pc[p] = "answered")
        /\ stage'[p] # "executing" /\ \A q \in Processes \ {p} : stage'[q] = stage[q]
    BY <1>4 DEF ReceiveMessage, TryInsert, DiscardBody, Conclude, LeaveInQueue, DeleteMessage,
       DeleteFails, InboxFails, CrashBeforeExecute, EndDelivery, vars
  <2> QED  BY <1>2, <2>1
<1>5. ASSUME NEW p \in Processes, ExecuteStep(p) PROVE StagesInv'
  <2>1. /\ pc[p] \notin {"idle", "answered"} /\ pc'[p] # "idle" /\ stage' = stage
        /\ \A q \in Processes \ {p} : pc'[q] = pc[q]
    BY <1>5, StepGoesOn DEF ExecuteStep, consumerVars
  <2> QED  BY <2>1 DEF StagesInv
<1>6. ASSUME NEW p \in Processes, CallerStep(p) PROVE StagesInv'
  <2>1. stage' = stage /\ \A q \in Consumers : pc'[q] = pc[q]
    BY <1>1, <1>6 DEF CallerStep, Direct, Receive, Fail, Goto, consumerVars
  <2> QED  BY <2>1 DEF StagesInv
<1>7. CASE UNCHANGED <<pc, stage>>
  BY <1>7 DEF StagesInv
<1>8. ASSUME NEW m \in Messages, VisibilityTimeout(m) PROVE UNCHANGED <<pc, stage>>
  BY <1>8 DEF VisibilityTimeout, vars
<1>9. CASE UNCHANGED serviceVars
  BY <1>7, <1>9 DEF serviceVars, vars, consumerVars
<1> QED  BY <1>3, <1>4, <1>5, <1>6, <1>7, <1>8, <1>9
         DEF ConsumerNext, ServiceNext, ConsumerStep, ConsumerFault

\* What every goroutine works on: a message is delivered at most MaxReceives times,
\* and while Execute runs for a goroutine, it runs on its message's input, for any
\* number of goroutines, messages and failures.
THEOREM AlwaysConsumerTypeOK == ConsumerSpec => []ConsumerTypeOK
<1> DEFINE IInv == QueueInv /\ InboxInv /\ StagesInv
<1>1. ConsumerInit => IInv
  BY ReceivesAssumption, ConsumersAssumption
  DEF ConsumerInit, Init, QueueInv, Places, InboxInv, StagesInv, Direct
<1>2. LockInv /\ DeliveryOK /\ ReasonInv /\ IInv /\ [ConsumerNext]_serviceVars => IInv'
  BY NextQueueInv, NextInboxInv, NextStagesInv
<1>3. DeliveryOK /\ CallsInv /\ ReasonInv /\ IInv => ConsumerTypeOK
  <2> SUFFICES ASSUME DeliveryOK, CallsInv, ReasonInv, IInv PROVE ConsumerTypeOK
    OBVIOUS
  <2>1. ASSUME NEW p \in Processes
        PROVE  /\ stage[p] = "none" <=> delivery[p] = NoMessage
               /\ p \in Direct => stage[p] = "none"
    BY NoMessageAssumption DEF DeliveryOK, InboxInv
  <2>2. ASSUME NEW p \in Processes, stage[p] # "none" PROVE p \in Consumers
    BY <2>2, <2>1 DEF Direct
  <2>3. calls \in [Messages -> Nat]
    BY DEF CallsInv
  <2> QED  BY <2>1, <2>2, <2>3
           DEF ConsumerTypeOK, DeliveryOK, Stages, Places, QueueInv, InboxInv, StagesInv, ReasonInv
<1>4. ConsumerSpec => []LockInv
  BY AlwaysConsumersActAsCallers, AlwaysAnswerInv, PTL DEF ConsumersActAsCallers, AnswerInv
<1>5. ConsumerSpec => []CallsInv
  BY AlwaysCallsInv
<1> HIDE DEF IInv
<1> QED  BY <1>1, <1>2, <1>3, <1>4, <1>5, AlwaysDeliveryOK, AlwaysReasonInv, PTL DEF ConsumerSpec

(***************************************************************************)
(* Amounts.                                                                 *)
(***************************************************************************)
\* The int64 arithmetic of Parse is exact for every amount that fits the word.
LEMMA ParsedIsExact ==
  ASSUME NEW d \in Decimal, Parses(d)
  PROVE  \/ d.units * 100 = Parsed(d) * 10 ^ d.places
         \/ d.units * 100 > MaxInt * 10 ^ d.places
<1>1. PICK u \in Nat : u = d.units
  BY DEF Decimal, Parses
<1>2. PICK c \in Nat, f \in {1, 10, 100} : f = 10 ^ d.places /\ c = Cents(d) /\ u * 100 = c * f
  <2>1. CASE d.places = 0
    <3>1. 10 ^ 0 = 1
      OBVIOUS
    <3> QED  BY <1>1, <2>1, <3>1 DEF Cents
  <2>2. CASE d.places = 1
    <3>1. 10 ^ 1 = 10
      OBVIOUS
    <3> QED  BY <1>1, <2>2, <3>1 DEF Cents
  <2>3. CASE d.places = 2
    <3>1. 10 ^ 2 = 100
      OBVIOUS
    <3> QED  BY <1>1, <2>3, <3>1 DEF Cents
  <2> QED  BY <2>1, <2>2, <2>3 DEF Decimal, Parses
<1>3. CASE c <= MaxInt
  <2>1. PICK a \in Nat, b \in Nat : a = c - MinInt /\ b = 2 * (MaxInt + 1) /\ a < b
    BY <1>3, MaxIntAssumption DEF MinInt
  <2>2. a % b = a
    BY <2>1
  <2>3. Parsed(d) = c
    BY <1>2, <2>1, <2>2, MaxIntAssumption DEF Parsed, Wrap, MinInt
  <2> QED  BY <1>1, <1>2, <2>3
<1>4. CASE c > MaxInt
  <2>1. c * f > MaxInt * f
    BY <1>2, <1>4, MaxIntAssumption
  <2> QED  BY <1>1, <1>2, <2>1
<1> QED  BY <1>3, <1>4, MaxIntAssumption

\* No message is settled for another amount than it names, unless that amount does
\* not fit the word: for every body, and every width of the word.
THEOREM AlwaysAmountsSurviveParsing == ConsumerSpec => []AmountsSurviveParsing
<1>1. AmountsSurviveParsing
  <2> SUFFICES ASSUME NEW m \in Messages, NEW i \in DOMAIN txs,
                      BodyParses(m), txs[i].req = Input(m)
               PROVE  \/ Body[m].amount.units * 100
                           = txs[i].req.amount * 10 ^ Body[m].amount.places
                      \/ Body[m].amount.units * 100 > MaxInt * 10 ^ Body[m].amount.places
    BY DEF AmountsSurviveParsing
  <2>1. Body[m].amount \in Decimal /\ Parses(Body[m].amount)
    BY BodiesAssumption DEF BodyParses
  <2>2. Input(m) \in Request
    BY BodiesAssumption, RequestsAssumption
  <2>3. Input(m).amount = Parsed(Body[m].amount)
    BY <2>2 DEF Input, Request
  <2> QED  BY <2>1, <2>3, ParsedIsExact
<1> QED  BY <1>1, PTL
=============================================================================

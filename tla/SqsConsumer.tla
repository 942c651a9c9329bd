---------------------------- MODULE SqsConsumer ----------------------------
(***************************************************************************)
(* SQSConsumer: every instance receives messages from the queue and gives    *)
(* each to a goroutine of its own, which inserts the message's id in the     *)
(* inbox, calls ProcessWagerUseCase.Execute and deletes the message.  The    *)
(* queue delivers a message again when it has not been deleted in time, and  *)
(* gives it up after MaxReceives deliveries.  Beside the consumers, callers  *)
(* send the same wagers over HTTP.                                           *)
(*                                                                           *)
(* The stage of a goroutine says what it does next:                          *)
(*                                                                           *)
(*   none        it has no message                                           *)
(*   received    INSERT INTO inbox_messages, in a transaction of its own     *)
(*   inserted    parse the body and call Execute                             *)
(*   executing   Execute runs (ProcessWager's pc says where)                 *)
(*   delete      DeleteMessage                                               *)
(***************************************************************************)
EXTENDS ProcessWagerProperties

CONSTANTS
  Consumers,        \* the goroutines that process messages; the others are callers
  Messages,         \* ids of the messages in the queue
  Body,             \* the body of each message
  MaxReceives,      \* maxReceiveCount of the queue
  SqsProvider,      \* "sqs_provider"
  NoMessage

ASSUME ConsumersAssumption == Consumers \subseteq Processes
ASSUME ReceivesAssumption == MaxReceives \in Nat \ {0}
ASSUME NoMessageAssumption == NoMessage \notin Messages

VARIABLES
  queue,            \* where each message is
  receives,         \* how often it has been delivered
  inbox,            \* table inbox_messages: the ids it has
  delivery,         \* the message each goroutine works on
  stage,
  calls,            \* history: how often Execute was called for each message
  abandoned         \* history: messages whose delivery ended after its inbox row
                    \* and before it was told an outcome

consumerVars == <<queue, receives, inbox, delivery, stage, calls, abandoned>>
serviceVars == <<vars, consumerVars>>

Direct == Processes \ Consumers

(***************************************************************************)
(* The body of a message.                                                   *)
(***************************************************************************)
\* The JSON and its uuids are valid, and so is the amount.
BodyParses(m) == Body[m].valid /\ Parses(Body[m].amount)

\* The ProcessWagerInput built from the body.
Input(m) ==
  [Body[m].wager EXCEPT !.provider = SqsProvider, !.amount = Parsed(Body[m].amount)]

\* Callers may send what a message says over HTTP; the amount of a valid body is a
\* decimal.
ASSUME BodiesAssumption ==
  \A m \in Messages : /\ BodyParses(m) => Input(m) \in Requests
                      /\ Body[m].valid => Body[m].amount \in Decimal

\* Errors of Execute after which the message is discarded; any other error
\* leaves it in the queue.
Discarded == {"IDEMPOTENCY_CONFLICT", "INVALID_OPENING_KIND", "OWNER_MISMATCH"}

(***************************************************************************)
(* Steps.                                                                   *)
(***************************************************************************)
\* start: a message is received and a goroutine is started for it.
ReceiveMessage(p, m) ==
  /\ stage[p] = "none" /\ queue[m] = "visible"
  /\ queue' = [queue EXCEPT ![m] = "inflight"]
  /\ receives' = [receives EXCEPT ![m] = @ + 1]
  /\ delivery' = [delivery EXCEPT ![p] = m]
  /\ stage' = [stage EXCEPT ![p] = "received"]
  /\ UNCHANGED <<vars, inbox, calls, abandoned>>

\* The queue: a message in flight is not deleted in time.  Its next receipt, or,
\* after the last one, the dead-letter queue.
VisibilityTimeout(m) ==
  /\ queue[m] = "inflight"
  /\ queue' = [queue EXCEPT ![m] = IF receives[m] = MaxReceives THEN "dead" ELSE "visible"]
  /\ UNCHANGED <<vars, receives, inbox, delivery, stage, calls, abandoned>>

EndDelivery(p) ==
  /\ delivery' = [delivery EXCEPT ![p] = NoMessage]
  /\ stage' = [stage EXCEPT ![p] = "none"]

\* Mutants: a duplicate goes on; the insert is never committed; a new message is
\* taken for a duplicate.
DuplicateGoesOn(p) ==
  /\ stage[p] = "received" /\ FreeConnection
  /\ inbox' = inbox \cup {delivery[p]}
  /\ stage' = [stage EXCEPT ![p] = "inserted"]
  /\ UNCHANGED <<vars, queue, receives, delivery, calls, abandoned>>
InsertNotCommitted(p) ==
  /\ stage[p] = "received" /\ FreeConnection
  /\ stage' = [stage EXCEPT ![p] = IF delivery[p] \in inbox THEN "delete" ELSE "inserted"]
  /\ UNCHANGED <<vars, queue, receives, inbox, delivery, calls, abandoned>>
NewTakenForDuplicate(p) ==
  /\ stage[p] = "received" /\ FreeConnection
  /\ inbox' = inbox \cup {delivery[p]}
  /\ stage' = [stage EXCEPT ![p] = IF delivery[p] \in inbox THEN "inserted" ELSE "delete"]
  /\ UNCHANGED <<vars, queue, receives, delivery, calls, abandoned>>
\* TryInsert and its COMMIT.  An insert of the same id waits for this one, so the
\* two are one after the other.
TryInsert(p) ==
  /\ stage[p] = "received" /\ FreeConnection
  /\ inbox' = inbox \cup {delivery[p]}
  /\ stage' = [stage EXCEPT ![p] = IF delivery[p] \in inbox THEN "delete" ELSE "inserted"]
  /\ UNCHANGED <<vars, queue, receives, delivery, calls, abandoned>>

\* The body is malformed: the message is deleted.
DiscardBody(p) ==
  /\ stage[p] = "inserted" /\ ~BodyParses(delivery[p])
  /\ stage' = [stage EXCEPT ![p] = "delete"]
  /\ UNCHANGED <<vars, queue, receives, inbox, delivery, calls, abandoned>>

\* Mutant: the places of the amount are ignored.
CallWithUnscaledAmount(p) ==
  /\ stage[p] = "inserted" /\ BodyParses(delivery[p])
  /\ Receive(p, [Input(delivery[p]) EXCEPT !.amount = Body[delivery[p]].amount.units])
  /\ stage' = [stage EXCEPT ![p] = "executing"]
  /\ calls' = [calls EXCEPT ![delivery[p]] = @ + 1]
  /\ UNCHANGED <<queue, receives, inbox, delivery, abandoned>>
\* Execute is called with the input built from the body.
CallExecute(p) ==
  /\ stage[p] = "inserted" /\ BodyParses(delivery[p])
  /\ Receive(p, Input(delivery[p]))
  /\ stage' = [stage EXCEPT ![p] = "executing"]
  /\ calls' = [calls EXCEPT ![delivery[p]] = @ + 1]
  /\ UNCHANGED <<queue, receives, inbox, delivery, abandoned>>

\* Execute has returned an answer or an error that no retry would change.
Conclude(p) ==
  /\ stage[p] = "executing" /\ pc[p] = "answered"
  /\ out[p].error \in Discarded \cup {"none"}
  /\ stage' = [stage EXCEPT ![p] = "delete"]
  /\ UNCHANGED <<vars, queue, receives, inbox, delivery, calls, abandoned>>

\* Any other error: the goroutine ends and the message stays in the queue.
LeaveInQueue(p) ==
  /\ stage[p] = "executing" /\ pc[p] = "answered"
  /\ out[p].error \notin Discarded \cup {"none"}
  /\ abandoned' = abandoned \cup {delivery[p]}
  /\ EndDelivery(p)
  /\ UNCHANGED <<vars, queue, receives, inbox, calls>>

\* A message the queue still has is removed.
DeleteMessage(p) ==
  /\ stage[p] = "delete"
  /\ queue' = [queue EXCEPT ![delivery[p]] = IF @ = "dead" THEN "dead" ELSE "deleted"]
  /\ EndDelivery(p)
  /\ UNCHANGED <<vars, receives, inbox, calls, abandoned>>

(***************************************************************************)
(* Failures.                                                                *)
(***************************************************************************)
\* The DELETE fails, or its receipt is too old: only logged.
DeleteFails(p) ==
  /\ stage[p] = "delete"
  /\ EndDelivery(p)
  /\ UNCHANGED <<vars, queue, receives, inbox, calls, abandoned>>

\* Mutant: the message is deleted although its inbox row was refused.
InboxFailureDeletes(p) ==
  /\ stage[p] = "received"
  /\ stage' = [stage EXCEPT ![p] = "delete"]
  /\ UNCHANGED <<vars, queue, receives, inbox, delivery, calls, abandoned>>
\* The inbox cannot be reached, or answers too late: the row may be there.
InboxFails(p) ==
  /\ stage[p] = "received"
  /\ \/ UNCHANGED <<inbox, abandoned>>
     \/ /\ delivery[p] \notin inbox
        /\ inbox' = inbox \cup {delivery[p]}
        /\ abandoned' = abandoned \cup {delivery[p]}
  /\ EndDelivery(p)
  /\ UNCHANGED <<vars, queue, receives, calls>>

\* A crash, or a shutdown that cancels the context: between the inbox row and
\* Execute, or in Execute.
CrashBeforeExecute(p) ==
  /\ stage[p] = "inserted"
  /\ abandoned' = abandoned \cup {delivery[p]}
  /\ EndDelivery(p)
  /\ UNCHANGED <<vars, queue, receives, inbox, calls>>

FailInExecute(p) ==
  /\ stage[p] = "executing" /\ Fail(p)
  /\ abandoned' = abandoned \cup {delivery[p]}
  /\ EndDelivery(p)
  /\ UNCHANGED <<queue, receives, inbox, calls>>

(***************************************************************************)
(* Specification.                                                           *)
(***************************************************************************)
\* Some of the messages have been sent.
ConsumerInit ==
  /\ Init
  /\ queue \in [Messages -> {"absent", "visible"}]
  /\ receives = [m \in Messages |-> 0]
  /\ inbox = {}
  /\ delivery = [p \in Processes |-> NoMessage]
  /\ stage = [p \in Processes |-> "none"]
  /\ calls = [m \in Messages |-> 0]
  /\ abandoned = {}

\* Execute, in goroutines and in callers.
ExecuteStep(p) == Step(p) /\ UNCHANGED consumerVars
CallerStep(p) ==
  /\ p \in Direct
  /\ (\E r \in Requests : Receive(p, r)) \/ Fail(p)
  /\ UNCHANGED consumerVars

\* What a goroutine does on its own account once it has a message.
ConsumerStep(p) ==
  \/ TryInsert(p) \/ DiscardBody(p) \/ CallExecute(p)
  \/ Conclude(p) \/ LeaveInQueue(p) \/ DeleteMessage(p)

ConsumerFault(p) ==
  DeleteFails(p) \/ InboxFails(p) \/ CrashBeforeExecute(p) \/ FailInExecute(p)

\* Everything but what callers do.
ServiceNext ==
  \/ \E p \in Consumers :
       \/ \E m \in Messages : ReceiveMessage(p, m)
       \/ ConsumerStep(p)
       \/ ConsumerFault(p)
  \/ \E m \in Messages : VisibilityTimeout(m)
  \/ \E p \in Processes : ExecuteStep(p)

ConsumerNext == ServiceNext \/ \E p \in Processes : CallerStep(p)

ConsumerSpec == ConsumerInit /\ [][ConsumerNext]_serviceVars

\* Instances receive what is in the queue, its clock goes on, goroutines run,
\* waiters of a row lock are served in turn.  Failures may go on for ever.
ConsumerFairness ==
  /\ \A m \in Messages :
       /\ WF_serviceVars(VisibilityTimeout(m))
       /\ SF_serviceVars(\E p \in Consumers : ReceiveMessage(p, m))
  /\ \A p \in Consumers : WF_serviceVars(ConsumerStep(p))
  /\ \A p \in Processes :
       /\ WF_serviceVars(ExecuteStep(p))
       /\ SF_serviceVars(LockWallet(p) /\ UNCHANGED consumerVars)

ConsumerLiveSpec == ConsumerSpec /\ ConsumerFairness

(***************************************************************************)
(* Properties.                                                              *)
(***************************************************************************)
\* A goroutine has a message exactly while it works on it, and that message has
\* been delivered; past the inbox it has an inbox row; while Execute runs, it
\* runs on the message's input.
ConsumerTypeOK ==
  /\ queue \in [Messages -> {"absent", "visible", "inflight", "deleted", "dead"}]
  /\ receives \in [Messages -> 0..MaxReceives]
  /\ inbox \subseteq Messages /\ abandoned \subseteq inbox
  /\ delivery \in [Processes -> Messages \cup {NoMessage}]
  /\ stage \in [Processes -> {"none", "received", "inserted", "executing", "delete"}]
  /\ calls \in [Messages -> Nat]
  /\ \A p \in Processes :
       /\ stage[p] = "none" <=> delivery[p] = NoMessage
       /\ p \in Direct => stage[p] = "none"
       /\ stage[p] \in {"inserted", "executing", "delete"} => delivery[p] \in inbox
       /\ p \in Consumers /\ pc[p] \notin {"idle", "answered"} => stage[p] = "executing"
       /\ stage[p] = "executing" =>
            /\ pc[p] # "idle" /\ BodyParses(delivery[p]) /\ req[p] = Input(delivery[p])

\* The consumers are callers of Execute: whatever is redelivered, duplicated or
\* lost, the wagers behave as without a queue (sqs_consumer.go:199).
ConsumersActAsCallers == Spec

\* However often a message is delivered, and to however many goroutines at once,
\* Execute is called for it at most once (inbox.go: "processamento
\* exatamente-uma-vez por (consumerName, messageID)").
CalledAtMostOnce == \A m \in Messages : calls[m] <= 1

\* Some goroutine will still carry m to an outcome.
InProgress(m) ==
  \E p \in Consumers : delivery[p] = m /\ stage[p] \in {"inserted", "executing"}

\* The service has decided about m: its key has a row, or it can have none (the
\* body, an OPENING, another player's wallet).
Decided(m) ==
  \/ ~BodyParses(m)
  \/ \E i \in DOMAIN txs : txs[i].req.key = Input(m).key
  \/ Input(m).kind = "OPENING"
  \/ Input(m).wallet \in Wallets /\ Owner[Input(m).wallet] # Input(m).player

\* A message leaves the queue without a decision only while a goroutine works on
\* it, or because one was interrupted after the inbox row; in particular a
\* duplicate delivery never deletes a message that nobody has worked on
\* (sqs_consumer.go:147).
DeletedForAReason ==
  \A m \in Messages :
    queue[m] = "deleted" => m \in inbox /\ (Decided(m) \/ InProgress(m) \/ m \in abandoned)

\* The amount of a settled message is the one it named, to the cent, if it fits
\* the word (money.go: "sem arredondamento silencioso").
AmountsSurviveParsing ==
  \A m \in Messages, i \in DOMAIN txs :
    LET d == Body[m].amount
    IN  BodyParses(m) /\ txs[i].req = Input(m) =>
          \/ d.units * 100 = txs[i].req.amount * 10 ^ d.places
          \/ d.units * 100 > MaxInt * 10 ^ d.places

\* A message is decided in the end, unless a goroutine was interrupted after the
\* inbox row or the queue gave the message up.
EveryMessageIsDecided ==
  \A m \in Messages :
    queue[m] = "visible" ~> Decided(m) \/ m \in abandoned \/ queue[m] = "dead"

\* A message that has left the queue has been executed, or is being executed
\* (inbox.go: the inbox row is inserted "NA MESMA TRANSACAO SQL que altera o
\* dominio ... ou ambos comitam ou ambos revertem").
NoMessageIsLost ==
  \A m \in Messages : queue[m] = "deleted" => Decided(m) \/ InProgress(m)
=============================================================================

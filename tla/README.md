# Formal model of the wager processor

The repository is a Go service that processes wagers (bets, wins, losses,
refunds, rollbacks) sent by game providers over HTTP and over an SQS queue. It
keeps wallets, wager transactions, an append-only ledger, an outbox and an inbox
in PostgreSQL, and is meant to run in several instances against one database.
This directory holds TLA+ modules of its core, the instances TLC checks, and
theorems about them that TLAPS proves. Paths below are relative to
`src/internal/`, or to `src/` where they begin with `db/` or `scripts/` or name a file at its top.

## 1. Inventory of the system

| Component | State it keeps | Operations | What is hard |
|---|---|---|---|
| Wager processing, `application/usecase/process_wager.go` | rows of four tables, written in one SQL transaction; nothing in memory between calls | `Execute`: idempotency fast path, row lock of the wallet, claim of the key, business rule of the kind, settlement (row, wallet, ledger, outbox) | concurrent callers on any number of instances; reads through the pool while a transaction is open; lost answers and retries; reversals before their reference |
| Wallet and ledger domain, `domain/wallet` | balance and version of the loaded row | `Credit`, `Debit`, `NewWalletLedgerEntry` | overflow, insufficient balance, version counting |
| Transaction domain, `domain/transaction` | status, failure code, result balance, resolved reference | `NewWagerTransaction`, `MarkAs...`, `ResolveReference` | terminal statuses, what a replay can answer with |
| Money, `domain/money` | int64 cents and a currency | `Parse`, `Add`, `Sub`, comparisons | overflow at both ends |
| Repositories, unit of work, schema, `infrastructure/postgres`, `db/migrations` | tables `wallets`, `wager_transactions`, `wallet_ledger_entries`, `outbox_events`, `inbox_messages`; the connection pool | lookups through the pool, statements in a transaction, `RunInTx` | READ COMMITTED, row locks, waiting on unique indexes, pool exhaustion |
| Wallet opening, `application/usecase/open_wallet.go` | inserts a wallet, its OPENING row, ledger entry and events | `Execute`, `doInsert` | two openings of one (player, currency) race |
| Outbox publisher, `infrastructure/worker/outbox_publisher.go` | `published_at`, `attempts`, `next_delivery_at` of the events | a batch every two seconds, under `FOR UPDATE SKIP LOCKED` | sent but not committed, failed statement in a batch, order of events |
| SQS consumer and inbox, `infrastructure/worker/sqs_consumer.go` | `inbox_messages` | receive, insert in the inbox, `Execute`, delete the message | the inbox row commits before `Execute` runs; redelivery |
| Pending-reference worker, `infrastructure/worker/pending_references.go` | `next_retry_at` of postponed wagers | fetch a batch, `Execute` each again | the retry meets its own row |
| Reconciliation and queries, `reconcile_wallet.go`, `queries.go`, ledger paging | none | reads | reads that are not one snapshot |
| HTTP handlers and router, `presentation/http` | none | decode, call a use case, encode | the request's context may be cancelled at any point |
| Authentication, configuration, wiring, SQS client, migrations | none that the domain depends on | | library code |

The components interact through the tables and by calls: the HTTP handler, the
SQS consumer and the pending-reference worker all call
`ProcessWagerUseCase.Execute`, each in a goroutine of its own;
`Execute` leaves events in `outbox_events` for the publisher and postponed rows
in `wager_transactions` for the worker. A transaction holds one connection of
the pool from `RunInTx` to COMMIT or ROLLBACK; `FindByIdempotencyKey`,
`FindByProviderAndExternalID` and `FindProcessedReversal` use the pool and not
the transaction, so they need a second connection and see what others have
committed, not what the caller has written.

What makes each part correct:

* wager processing: no lost update, no decision on a stale balance, one committed
  transaction per idempotency key and per (provider, external id), every answer
  and replay about a committed row, ledger, wallet, row and events in agreement,
  reversals paid at most once and exactly opposite to their reference, no
  deadlock, every request answered;
* opening: one wallet per (player, currency), both callers get it;
* publisher: every event is sent, after its commit, in the order of the wallet;
* consumer: every message is executed once, or stays in the queue;
* pending references: a postponed wager is settled once its reference is;
* reconciliation: a consistent wallet is reported as consistent.

The hazards of the code, each at its line and with the property that would
catch it, are listed in `PROJECT.json`.

## 2. Modules

| Module | Models |
|---|---|
| `Transaction` | kinds, statuses, failure codes, `NewWagerTransaction`'s checks, what a reversal may undo |
| `Money` | int64 amounts, the overflow guards of `Add` and `Sub`, `Parse` of a decimal; `MaxInt` stands for `math.MaxInt64` |
| `Wallet` | when `Credit` and `Debit` succeed and the ledger entry they make |
| `ProcessWager` | `Execute` by several goroutines against one database; the database is part of the module |
| `ProcessWagerProperties` | its invariants, action properties, liveness and refinement mapping |
| `AtomicWager` | the abstract specification: each wager is settled at most once, in one step |
| `WalletBooks` | the abstract specification of wallets and their ledgers: a wallet appears with the entry that explains it, and moves only with an entry; wagers and openings both implement it |
| `MCProcessWager`, `MCWagerScenarios` | the instances for TLC: wallets, players and sets of requests; several sets in one run |
| `ProcessWagerProofs` | step lemmas, type correctness, the lock |
| `ProcessWagerInvariants` | ledger, decisions, claims, answers; rows and their ledger entries; the books; what a reversal undoes, and that it is paid once; who waits for whom; rows and their events |
| `ProcessWagerRefinement` | the use case implements `AtomicWager`; postponement |
| `PendingReferences` | the pending-reference worker beside the callers of `Execute`; extends `ProcessWager` |
| `MCPendingReferences`, `PendingReferencesProofs` | its instances; the worker adds no behaviour, what it fetches, what a retry meets |
| `SqsConsumer` | queue, inbox and consumer goroutines beside the callers of `Execute`; extends `ProcessWager` |
| `MCSqsConsumer`, `SqsConsumerProofs` | its instances; the consumers add no behaviour, one call per message, why messages are deleted, what a goroutine works on, amounts |
| `Rows` | rows in the order of an index: their places, insertion, interleaving, exclusion, the sum of a column |
| `RowLemmas` | what these operators return, and the induction that shows it |
| `OutboxPublisher` | the publishers of several instances, the rows of `outbox_events`, the queue they send to |
| `AtLeastOnce` | the abstract specification of the outbox |
| `MCOutboxPublisher`, `OutboxPublisherProofs` | its instance; disjoint batches, the order of events, the promise of `AtLeastOnce` |
| `OpenWallet` | openings that race, beside wagers that are one step each |
| `WalletReads` | reconciliation and ledger pages, while openings and wagers go on; extends `OpenWallet` |
| `MCWalletReads`, `WalletReadsProofs` | the instances of both; one wallet per player and currency, complete openings, the books, reconciliations, pages |

### How `ProcessWager` corresponds to the code

*State.* `wallets`, `txs`, `ledger` and `outbox` are the committed contents of
the tables. `txs` is a sequence in commit order and a row's id is its position;
the OPENING row has no provider, key or external id, no lookup finds it, and it
is the id 0 in the ledger. `ledger` is kept per wallet, in insertion order. For
each process, `pc` is the statement it sends next, `req` its input, `snap` the
wallet row it read under `FOR UPDATE`, `ref` and `verdict` what its lookups of a
reversal found, `out` what `Execute` returned.

*Granularity.* A step is one statement that can wait for, or observe, another
process, with the computation that follows it. The writes that end a
transaction and its COMMIT are one step: until COMMIT nobody sees them, and what
others can feel of an uncommitted transaction (its row lock, its claim on the
unique indexes, its connection) is modelled by the phase it is in (`LockHeld`,
`Inserted`, `InTx`). Nothing another process does between the last lookup and
COMMIT can change what is written, except through the version check and the
CHECK constraints, which `CommitSuccess` evaluates against the tables as they are
at COMMIT.

*Actions.*

| Action | Code |
|---|---|
| `Receive` | a caller (HTTP handler, consumer, worker) sends an input, new or a retry |
| `Lookup` | steps 1 to 3 of `Execute`: fast path, `handleExistingTransaction`, refusal of OPENING |
| `Begin` | `RunInTx`: acquire a connection, BEGIN |
| `LockWallet` | `FindByIDWithLock`, then the checks of owner, currency and `NewWagerTransaction` |
| `TryCreate` | `INSERT ... ON CONFLICT (idempotency_key) DO NOTHING`; the other unique index raises an error; both wait for uncommitted rows |
| `AnswerRaced` | the claim was lost: the winner's row answers |
| `ProcessBet`, `ProcessWin`, `ProcessLoss` | the functions of these names, `commitSuccess` or `rejectTransaction` |
| `FindReference`, `FindReversal` | the two lookups of `processRefund` and `processRollback` |
| `MarkPendingReference`, `RefuseReversal`, `SettleRefund`, `SettleRollback` | their outcomes |
| `Fail` | a cancelled context, a lost connection or a crash, at any phase; from `answered`, a lost acknowledgement of COMMIT or a lost answer |

### The modules around it

`PendingReferences` adds `due`, the postponed rows whose `next_retry_at` has
passed, in its order, and `batch`, the rows that a fetch returned and whose
goroutines have not called `Execute` yet. `Expire` is the clock, `FetchPending`
the `UPDATE ... RETURNING` of `FindPendingReferences`, `Retry` a goroutine of
`processPending`, `LoseBatch` a stop of the instance or an error after the
UPDATE; `ExecuteStep` is everything `ProcessWager` does. Several instances fetch
from one table, so a fetch may follow another at once. `Workers` are the
goroutines of the worker, the other processes are callers. The number of
attempts is not modelled: no code reads it (`port/repository.go:113` speaks of a
maximum).

`SqsConsumer` adds the queue (`absent`, `visible`, `inflight`, `deleted`, `dead`
for each message), the number of its deliveries, the inbox, and for each goroutine
the message it works on and the `stage` it has reached. `CallExecute` is
`ProcessWager`'s `Receive` with the input built from the body; while a goroutine is
`executing`, its statements are `ProcessWager`'s own steps (`ExecuteStep`), so the
composition is statement by statement. `Conclude` and `LeaveInQueue` are the
branches on the error `Execute` returned. `TryInsert` is a transaction of its own,
as in the code; two inserts of one id wait for each other, so it is one step.
`InboxFails`, `CrashBeforeExecute`, `FailInExecute` and `DeleteFails` are what may go
wrong at each stage, the lost acknowledgement of a COMMIT included.
`VisibilityTimeout` may strike while the goroutine still works, which is how a message
comes to be with two goroutines. The queue is external: it delivers a message
`MaxReceives` times, then gives it up. `calls` and `abandoned` are history.

`OutboxPublisher` keeps the unpublished rows that are due as a sequence, `line`, by
`next_delivery_at`; rows moved ahead are `waiting`. A publisher's transaction has
locked `batch`, has `todo` left to send, and holds uncommitted `marks` and `fails`;
after a failed statement it is `doomed`, goes on sending, and its COMMIT is a
rollback. `FifoQueue` says which queue the instance sends to: a FIFO queue without
content-based deduplication refuses every message of the publisher, which names no
group and no deduplication id, and leaves only `SendFails`. `CommitTransaction` puts each
event of a wager's transaction into the line at a place of its own, since each
takes the time of its making and other instances have clocks of their own, in the order
in which they were made (`Interleavings`). This assumes that an instance's clock advances between two
events of one transaction, by the microsecond PostgreSQL stores: each stamp is a
`time.Now()` of its own and a payload is marshalled in between, but nothing in
the query orders equal stamps. `copies` counts the copies in the queue up to "many".
`AtLeastOnce` is what the package comment of `outbox.go` promises, and
`KeepsPromise` the refinement: produced is committed, delivered is having a copy.

`OpenWallet` has a step for the lookup through the pool, one for the INSERT (which
waits for an uncommitted row of the same key, then meets it), and one for the rest of
`doInsert` with its COMMIT. What a wager does to a wallet meanwhile is one step,
`SettleWager`: a movement of `WalletBooks`, any that it allows. `ProcessWager` is proved to
move wallets in no other way (`WagersKeepBooks`), so openings, reconciliations and pages
are checked against everything that wager processing may do to the tables they read. `Balance` is `Parsed`, which wraps: an amount beyond
the word may open an empty wallet, be refused by the CHECK constraint or come out as
another amount. A request's currency is a spelling, `Upper` what it stands for.

`WalletReads` extends it with auditors, whose two reads are two steps, and readers, who
follow `nextCursor` until a page is empty. `order` holds the entries of a ledger
by (created_at, id), the order pages are cut in; a new entry may take any place (behind
the first `n`), because its stamp is its instance's clock. `moved` and `late` are history: what was
committed between an auditor's reads, and behind a reader's back. Every step of
`ReadsNext` is a step of `OpenNext` or leaves the variables of `OpenWallet` alone.

*Abstracted.* The SHA-256 of the payload is the tuple of the hashed fields, so it
has no collisions. Timestamps, round, game and correlation ids, logging, and the
JSON payload of events beyond the ledger entry and the wallet version are left out. Empty
identity fields are refused like other malformed inputs and are not enumerated.
The kinds that the code does not know are refused like OPENING. The events of the
OPENING row are written before the model starts, and `outbox` leaves them out.

## 3. Runs

A run is named after its cfg. Requests can be sent any number of times; the number
of committed rows is bounded by the keys, because a key is committed once, so no
counter of `ProcessWager` needs a bound and its state space is finite as it is.

| Run | Instance | Shows |
|---|---|---|
| `wagers` | two callers, one wallet with balance 5, four sets of inputs, one of which is chosen at the start | money: `TypeOK`, `LedgerExplainsBalance`, `EntryIffProcessed`, `DefencesNeverTrip`, `DecisionsAreCurrent`; idempotency: `ClaimedOnce`, `AnswersAreCommitted`; reversals: `OneReversalPerKind`, `ReversalUndoesReference`, `PendingOnlyIfUnsettled`; events: `OutboxTellsStory`, `BalanceEventsAreGapless`; `EveryCaseIsHandled`; and the refinements `ImplementsAtomic` and `KeepsBooks` |
| `strangers` | three callers, two wallets in two currencies that share keys, an external id and a reference, inputs refused without a row | `ClaimedOnce`; `EveryWaitEnds`, with a connection to spare |
| `pending` | a caller and two workers, a bet, its refund and its rollback, fetches of one row, under `PendingLiveSpec` | `PendingTypeOK`, `RetriesMeetTheirRow`, `ActsAsACaller`, `EveryPostponedIsRetried` |
| `consumers` | two goroutines and an HTTP caller, one or two of five messages, under the fairness of `ConsumerLiveSpec` | `ConsumerTypeOK`, `CalledAtMostOnce`, `DeletedForAReason`, `AmountsSurviveParsing`, `ConsumersActAsCallers`, `EveryMessageIsDecided`, `EveryRequestAnswered` |
| `publishing` | two publishers, a transaction with two events and one with one, batches of two, under `LiveSpec` | `PublisherTypeOK`, `ResentOnlyAfterTrouble`, `KeepsPromise`, `OrderWithinTransaction`, `EveryEventIsTried` |
| `wallets` | two openers, five requests, one auditor, one reader with pages of one entry | `ReadsTypeOK`, `OneWalletPerPlayerAndCurrency`, `OpeningIsComplete`, `AnswersNameTheWallet`, `ReconciliationIsExplained`, `PagesDoNotOverlap`, `SkippedOnlyIfLate` |

Six runs state what a comment of the repository says and the code does not do:

| Run | Statement | What TLC finds |
|---|---|---|
| `cross_wallet` | `OneReversalPerKind`, `transaction_repo.go:234` | two refunds of one bet that name two wallets are both paid: they hold different locks and read before the other commits |
| `pool` | `SomeoneCanProceed`, `process_wager.go:193`, with two connections for two processes | both transactions hold a connection, one waits for the other's row lock and that one for a second connection |
| `settled` | `EveryPostponedIsSettled`, `transaction.go:249`, under `PendingLiveSpec` | the retry of a postponed refund is answered by the fast path with the postponed row itself, and no step ever settles it |
| `message_lost` | `NoMessageIsLost`, `inbox.go:11` | a goroutine stops between the inbox row and `Execute`; the redelivery is taken for a duplicate and deleted |
| `opening_loser` | `LosersAreAnswered`, `open_wallet.go:116` | the error of the unique index is not recognised (another driver's type), so the loser of the race gets an internal error |
| `fifo` | `EveryEventIsPublished`, `outbox.go:6` and `9`, under `LiveSpec`, with the queue of `scripts/init-localstack.sh:48` | every send is refused; events go round between due and failed for ever. What holds is `EveryEventIsTried` |

Four disagreements need no interleaving, a test of a few calls shows each, and no run is
spent on them: a bet can be refunded and then rolled back, and the player is credited twice, since each
lookup is for its own kind (`process_wager.go:402` and `450`; `port/repository.go:117` says
"Previne que a mesma operacao seja revertida duas vezes"; what holds is `OneReversalPerKind`);
an amount beyond int64 is accepted and settled as what its low bits say (`money.go:123`;
`ARCHITECTURE.md:10` calls validation exact; what holds is `AmountsSurviveParsing`, which
leaves such amounts out); a rollback
that names another amount is paid with the reference's (`status.go:69`); the replay of
a rejection has no balance, its first answer has one (`transaction.go:18`).

### Bounds

* *Processes.* Two are enough for every pairwise race, and the requests of a run are
  chosen so that two compete for the same balance, key, external id or reference;
  `strangers` has three, so that one can wait while two others race. They are
  interchangeable, and symmetric where a run checks no liveness; wallets, keys and
  external ids are not. A pool has one connection more than processes, except in
  `pool` and in `pending` and `consumers`, where it has as many as processes.
* *Amounts.* `MaxInt = 11` in `wagers`: one of the bets' wins exceeds it, the
  refund of a refused bet would not. The four sets of inputs are

  | Inputs | Interference |
  |---|---|
  | `Bets` | two bets of 4, a win of 7, a loss, a key with a second payload, an external id with a second key |
  | `Refunds` | a bet, three refunds of it (one of another amount), a rollback of a refund |
  | `Rollbacks` | a win, two rollbacks of it, a bet that may spend it, a rollback of the bet |
  | `BadReferences` | reversals of a loss, of a refused bet, of a postponed reversal and of itself |

* *Messages.* `MaxReceives = 2`: one redelivery, and one dead letter. The five bodies
  are a bet of three cents, its key again with an amount beyond the word
  (`MaxInt = 99`), a bet on another player's wallet, half a cent, and a wallet that
  is not there. The first is sent alone, with an HTTP caller that sends its key too, with
  either payload; or the first two; or those that end in no wager (the third alone, the last two
  together).
* *Events.* Two transactions and two publishers: batches overlap, and a transaction is
  split between publishers; the row of one may fall between the rows of the other.
  `publishing` has a queue that takes messages (`FifoQueue = FALSE`), `fifo` the one the
  script creates.
* *Wallets.* Word -10..9. The opening balances are five cents, none, one that wraps below zero,
  one that wraps to one cent, and a currency in lower case. `MaxSettled = 2`
  wagers of 5, after which the sum of the credits no longer fits the word.

`ImplementsAtomic` and `OneReversalPerKind` hold in runs whose references stay in
one wallet (`ReferencesStayInWallet`): `cross_wallet` shows that this is needed,
and nothing in the code enforces it.

`CHECK_DEADLOCK FALSE` stands where the system may really stop: every message has been
deleted or given up, every event published.

### Fairness

* `PendingLiveSpec`: weak fairness of each process's own steps (goroutines are
  scheduled, the database answers), strong fairness of `LockWallet` (PostgreSQL queues the
  waiters of a row lock, so a waiter is not overtaken for ever), failures that do
  not go on for ever, weak fairness of each row's clock, and strong fairness of the
  fetch and of each fetched row's goroutine: the ticker never stops, a waiter of the
  pool is served in turn, and the scheduler starts every goroutine. Fetches of one
  row with two rows postponed are the smallest instance in which one row can
  starve another; with the newest row first, it does.
* `ConsumerLiveSpec`: the same of `Execute`, weak fairness of a goroutine's own steps and of
  the queue's clock, strong fairness of the receipt of each message, which long
  polling justifies: a visible message is not passed over for ever. Failures may go on
  for ever; the queue's limit on deliveries ends them.
* `OutboxPublisher`'s `LiveSpec`: the ticker, the publishers and the clocks go on, and
  statements and instances do not fail for ever. Nothing is assumed of sends: each may fail
  any number of times. So `publishing` shows that an event is published or its failure
  recorded again and again, and that it is not passed over meanwhile; that it is published
  in the end would need a queue that takes it.

Callers are never obliged to send anything.

## 4. Proofs

The theorems hold for every finite or infinite set of processes, wallets,
requests, messages and openings and every word size, under the named assumptions
of the modules, which the runs evaluate for their instances.

| Theorem | Module | Statement |
|---|---|---|
| `AlwaysTypeOK` | `ProcessWagerProofs` | `Spec => []TypeOK` |
| `AlwaysDefencesNeverTrip` | `ProcessWagerProofs` | `Spec => []DefencesNeverTrip` |
| `AlwaysLockProtectsWallet` | `ProcessWagerProofs` | `Spec => []LockProtectsWallet` |
| `AlwaysLedgerExplainsBalance` | `ProcessWagerInvariants` | `Spec => []LedgerExplainsBalance` |
| `AlwaysDecisionsAreCurrent` | `ProcessWagerInvariants` | `Spec => DecisionsAreCurrent` |
| `AlwaysClaimedOnce` | `ProcessWagerInvariants` | `Spec => []ClaimedOnce` |
| `AlwaysAnswersAreCommitted` | `ProcessWagerInvariants` | `Spec => []AnswersAreCommitted` |
| `AlwaysEntryIffProcessed` | `ProcessWagerInvariants` | `Spec => []EntryIffProcessed` |
| `WagersKeepBooks` | `ProcessWagerInvariants` | `Spec => KeepsBooks` |
| `AlwaysReversalUndoesReference` | `ProcessWagerInvariants` | `Spec => []ReversalUndoesReference` |
| `AlwaysOneReversalPerKind` | `ProcessWagerInvariants` | `Spec => []OneReversalPerKind`, assuming `ReferencesStayInWallet` |
| `OnlyThePoolDeadlocks` | `ProcessWagerInvariants` | `Spec => [](FreeConnection => EveryWaitEnds)` |
| `DeadlockNeedsASecondConnection` | `ProcessWagerInvariants` | in every state of `Spec`, `SomeoneCanProceed`, or the pool is exhausted and an open transaction `NeedsConnection` |
| `AlwaysOutboxTellsStory` | `ProcessWagerInvariants` | `Spec => []OutboxTellsStory` |
| `AlwaysBalanceEventsAreGapless` | `ProcessWagerInvariants` | `Spec => []BalanceEventsAreGapless` |
| `UseCaseIsAtomic` | `ProcessWagerRefinement` | `Spec => ImplementsAtomic`, assuming `ReferencesStayInWallet` |
| `AlwaysPendingOnlyIfUnsettled` | `ProcessWagerRefinement` | `Spec => []PendingOnlyIfUnsettled`, assuming `ReferencesStayInWallet` |
| `PendingActsAsACaller` | `PendingReferencesProofs` | `PendingSpec => ActsAsACaller` |
| `AlwaysPendingTypeOK` | `PendingReferencesProofs` | `PendingSpec => []PendingTypeOK` |
| `AlwaysRetriesMeetTheirRow` | `PendingReferencesProofs` | `PendingSpec => []RetriesMeetTheirRow` |
| `AlwaysConsumersActAsCallers` | `SqsConsumerProofs` | `ConsumerSpec => ConsumersActAsCallers` |
| `AlwaysCalledAtMostOnce` | `SqsConsumerProofs` | `ConsumerSpec => []CalledAtMostOnce` |
| `AlwaysDeletedForAReason` | `SqsConsumerProofs` | `ConsumerSpec => []DeletedForAReason` |
| `AlwaysConsumerTypeOK` | `SqsConsumerProofs` | `ConsumerSpec => []ConsumerTypeOK` |
| `AlwaysAmountsSurviveParsing` | `SqsConsumerProofs` | `ConsumerSpec => []AmountsSurviveParsing` |
| `PublisherKeepsPromise` | `OutboxPublisherProofs` | `Spec => KeepsPromise` |
| `NothingIsSentTwice` | `OutboxPublisherProofs` | `Spec => []ResentOnlyAfterTrouble` |
| `EventsLeaveInOrder` | `OutboxPublisherProofs` | `Spec => OrderWithinTransaction` |
| `TypeCorrect` | `OutboxPublisherProofs` | `Spec => []PublisherTypeOK` |
| `AlwaysOneWallet` | `WalletReadsProofs` | `OpenSpec => []OneWalletPerPlayerAndCurrency` |
| `AlwaysAnswersNameTheWallet` | `WalletReadsProofs` | `OpenSpec => []AnswersNameTheWallet` |
| `AlwaysOpeningIsComplete` | `WalletReadsProofs` | `OpenSpec => []OpeningIsComplete` |
| `OpeningsKeepBooks` | `WalletReadsProofs` | `OpenSpec => KeepsBooks` |
| `ReadsKeepOpenings` | `WalletReadsProofs` | `ReadsSpec => OpenSpec` |
| `AlwaysReconciliationIsExplained` | `WalletReadsProofs` | `ReadsSpec => []ReconciliationIsExplained` |
| `AlwaysPagesDoNotOverlap` | `WalletReadsProofs` | `ReadsSpec => []PagesDoNotOverlap` |
| `AlwaysSkippedOnlyIfLate` | `WalletReadsProofs` | `ReadsSpec => []SkippedOnlyIfLate` |
| `AlwaysReadsTypeOK` | `WalletReadsProofs` | `ReadsSpec => []ReadsTypeOK` |

*The argument.* `TypeOK` is not inductive: that a balance stays in `0..MaxInt`
depends on the snapshot a settlement computes from, which may be stale unless
the lock protects it. The inductive invariant is

    LockInv == TypeOK /\ LockExclusive /\ SnapshotCurrent /\ DefencesNeverTrip

Two transactions never hold one wallet's lock; a wallet row changes only in a
settlement of its lock's holder; so every holder's snapshot is the row. Given
that, the version check finds what it read and a debit that the domain allowed
leaves no negative balance. The proofs do not go through the fourteen actions
one invariant at a time: a first group of lemmas (`StepShape` and those before
it) shows that each step has one of five shapes (it moves only its process's own
phase, it takes the lock, it claims, it commits a row without or with a ledger
entry), and each invariant is proved against the shapes.

`LedgerExplainsBalance` is carried by `LedgerInv`, its conjunction with
`LockInv`: a new entry starts from the snapshot's balance, which is the row's,
which is where the chain ended. `DecisionsAreCurrent` follows from `LockInv`
alone. `ClaimedOnce` needs `ClaimInv`: a transaction that has inserted its row
has found its key and external id free (`ClaimsFree`), and no other one that has
inserted holds the same (`ClaimsExclusive`); the commit of one cannot break the
claim of another.

For the worker, `WorkerInv` adds to `ClaimInv` that only postponed rows are due or
fetched and that a retry is idle, looking up or answered, with a postponed row's
input (and that no row is due twice, which `PendingTypeOK` says as well). A key is claimed once, so the lookup of a retry finds its own row, and the
hash of the row's own input is the row's: `RetryIsAnswered`. A retry's input is some
caller's input, so every step is one of `ProcessWager` or leaves its variables alone;
`ActsAsACaller` is `Spec`, and each theorem above holds with workers too.

`AnswersAreCommitted` is carried by `AnswerInv`: an answer without an error names a committed
row, and a row, once committed, never changes. A replay copies the row the lookup
found; the loser of a claim waits for the winner's COMMIT and then reads its row.

`EntryIffProcessed` counts entries, so `EntryInv` says it without counting: each entry
that is not the OPENING's names a row that moved its wallet to the entry's balance
(`EntriesExplained`), no two entries name one row (`EntriesDistinct`), and each row
that moves money is named (`RowsHaveEntries`). A new entry names the next row id,
which no entry can have named.

`WagersKeepBooks` takes `LockInv` and `EntryInv`: a settlement computes from the row in the table,
the CHECK constraint's bounds on both sides of its entry are what `Credit` and `Debit` ask for
(`EntryIsAllowed`), and its row id is new to the ledger. Every other step leaves wallets and
ledger alone.

Who waits is said by three relations of `ProcessWagerProperties`: `WaitsFor` (p wants the lock q holds,
or the key q has inserted), `NeedsConnection`, and `CanProceed`, which is that neither
holds p up and the code has a case for what p has found. `EveryWaitEnds` is that who waits for others waits for one that can proceed; it needs a
connection to spare. The argument is short chains and not an order of the locks: a caller that waits
for a wallet waits for one that holds it; a holder may wait in turn for a key, but whoever has
inserted a key holds its own wallet already and waits for nobody (`HoldersProceed`,
`WaitsAreShort`). So row locks and unique indexes are never part of a cycle, and what is
left is the pool: if no open transaction can go on, one of them is at a lookup that needs a
second connection and there is none (`DeadlockNeedsASecondConnection`). Nothing bounds the
callers, so this does happen: `pool`. That a caller who waits for nobody has a case to go to is
`CaseInv`: a reversal that is looked up or settled is a REFUND or a ROLLBACK, its verdict is one of
those the code acts on, and the reference it moves is of a kind that `processRollback`'s switch,
which has no default, names (`EveryoneHasACase`).

For events, `EventInv` says that an event names a committed row (`EventsHaveRows`), that each row
is told of by the event of its status, followed, if it moved its wallet, by one that
carries an entry of the wallet's ledger (`RowsTold`), and that a wallet's version is one
more than the number of its balance events (`VersionsCounted`). The last is what makes
`BalanceEventsAreGapless` inductive: the version of the next event is counted off
the wallet's row, which the lock protects. That the entry is the entry of its row
takes `EntryInv`, by which a row has no other.

For reversals, `ReversalInv` carries a lookup to the commit that uses it. The lookups go
through the pool, not through the transaction, and see what others commit meanwhile, but
rows never change: the reference found paid stays paid (`LookupsStand`), so the row
stored (`RowsRefer`) and the entry made from it (`EntriesFit`) agree with the reference.
That no reversal of the kind has been paid is a fact of another sort, which a commit
could end: it lasts from the lookup to the payment (`DecisionsStand`) because whoever
could end it has to hold the same wallet's lock. That is what
`ReferencesStayInWallet` is for; `cross_wallet` shows the race without it.

The refinement needs all of these, and two more facts, joined in `AtomicInv`: whoever holds
a lock has passed the checks on its wallet (`AdmittedInv`), and the verdict that a
reversal's lookups led to (postpone, refuse with a code, move) is still what the rows
say when it commits (`VerdictsStand`), although other transactions have committed in
between: a row that could change it would be in the same wallet, hence written under the
lock the reversal holds. Then each way to commit is the outcome of the same name in
`AtomicWager`: a reversal that finds nothing settled is its `Postpone`, a refused one
its `RefuseReference` or `Reverse`, a paid one its `Reverse` (`RejectRefines`, `CreditRefines`,
`DebitRefines`, `ReverseRefines`). The mapping reads how much a row moved off its ledger
entry, so the outcomes of older rows stay only because a row has one entry
(`OutcomeStays`). Every other step leaves wallets, rows and ledger alone and maps to a
stutter. `PendingOnlyIfUnsettled` follows from `VerdictsStand` at the commit of
`MarkPendingReference`.

For the consumers, `CallsInv` says that `Execute` has been called for a message only
if its id is in the inbox, and that one goroutine at most is past `TryInsert` and
short of its call: whoever inserts the id first gets there, everybody
else deletes. `DeletedForAReason` adds why an answer is a decision
(`ReasonInv`, `DeliveryOK`): an error that is discarded is one whose input can never have a
row, or whose key has one, and `Owner` and committed rows do not change.
`ConsumerTypeOK` needs three more invariants: a message waits in the queue only while it has a
delivery left (`QueueInv`), a goroutine without a message names none and rows of the
inbox are messages (`InboxInv`), and a goroutine is inside `Execute` exactly at its stage
`executing` (`StagesInv`). `AmountsSurviveParsing` rests on a lemma about `Parse`,
`ParsedIsExact`: cents that fit the word are not wrapped. The amounts of valid bodies
are decimals (`BodiesAssumption`).

For the publisher the invariant is `IInv`. Each row is in one place (`RowsOK`), batches are
disjoint parts of the line (`BatchesOK`), and what is published or marked has a copy
(`DeliveryOK`): that is the promise of `AtLeastOnce`, to which `Publish` maps as
`Deliver`, `CommitBatch` as `Record`, and everything that fails as a stutter or a
`Deliver`. Nothing is sent twice because an undisturbed event with a copy is either
published or in the batch of the publisher that has sent it (`SendingOK`), and who
fetches next finds it locked. Order takes three facts: a transaction's rows are
committed together (`CommitsAreWhole`), an undisturbed row comes before the later ones
of its transaction in the line (`LineKeepsOrder`), and whoever is about to send a row will
send the earlier ones first, or another publisher holds them (`TodoKeepsOrder`).
Without `CommitsAreWhole` neither is inductive: a fetch could find the second row of a
transaction whose first is still to come.

For openings, `KeyInv` says that no two wallets share a key and that an opener that has
inserted its row holds a key no wallet has and no other such opener holds; the wait
for an uncommitted key is what makes it inductive. `AnswerInv` adds that whoever was
told that it created a wallet is the only one, since the wallet's id was new then.
`CompleteInv` says of each wallet, its ledger and its events what `OpeningIsComplete` says,
and that an opener past the INSERT has a balance the CHECK constraint let through; with
the last, its commit is the `Open` of `WalletBooks` (`CommitOpens`).
These theorems are about `OpenSpec`; they hold of `ReadsSpec` by `ReadsKeepOpenings`.

For reads, `SumInv` says that a balance is the sum of its ledger's credits less its debits, and
`AuditInv` that between its reads an auditor knows the balance up to what has moved since:
what the sums say later differs from the balance read by just that. For pages,
`OrderInv` says that the order of a ledger holds each entry once, and `PagingInv` that
a reader has been given entries in order, and all up to its cursor but the late ones
(`GoodPages`); an entry inserted at or before the cursor's place is late, any other is still
ahead.

The lemmas about `Rows` are proved by induction over the rows. The library's induction
theorems take a predicate as a parameter, which the provers cannot instantiate, so
`RowLemmas` derives induction over a set (`Induction`) from the
well-foundedness of inclusion between finite sets, and from it that a computation
by steps exists (`StepsExist`), which is how `Without` and `Total` unfold
(`WithoutSteps`, `TotalSteps`). They are recursive functions and not folds for
that reason. That rows stay distinct and in order when some are left out, taken from either end
inserted or interleaved are `WithoutRows`, `FirstRows`, `RestOfRows`, `RowAppended`,
`RowsInserted` and `RowsInterleaved`.

*Only model-checked.* Liveness (`EveryRequestAnswered`, `EveryPostponedIsRetried`,
`EveryMessageIsDecided`, `EveryEventIsTried`) and `EveryCaseIsHandled`, which is
about ENABLED, are out of the prover's reach. `EveryCaseIsHandled` ties the proof's relations to the actions:
in every state that TLC reaches, whoever runs and waits for nobody has a step. Its
counterpart without ENABLED, that each has a case, is the lemma `EveryoneHasACase`. Every other
property of a passing run has a theorem. The other way round, `LockProtectsWallet`, `OpenWallet`'s
`KeepsBooks` and `ReadsKeepOpenings` are proved and no run lists them.

## 5. Not modelled

* Authentication, configuration, wiring, the SQS client and the migration runner:
  library calls without state the domain depends on. The provider id that a token
  gives a request, the pool's size and the cancellation of contexts are in the
  models as constants and as failures.
* Routing, status codes, JSON, the wording of amounts, row scans, the GET routes that
  read one row and the health checks: each is one read, or none, and no property
  tells their outcomes apart.
* The failure of a single statement among the writes of a settlement: the writes and COMMIT
  are one step (see Granularity). `executeInTransaction` returns the error of each of them, and
  `RunInTx` then rolls back, so the failure is `Fail`, whichever statement it was;
  that half a settlement is never seen is PostgreSQL's promise and no result of these models.
* The order in which a FIFO queue delivers within a group to the consumer: the goroutines
  work in parallel on what one receipt returned, so the order would only take away
  interleavings of messages received apart.
* The statuses PENDING and FAILED are never committed by the code (a row is
  inserted and finished in one transaction, and `MarkAsFailed` has no caller);
  they appear in the tests on a reference's status, as in the code.

## 6. What is left

* `ProcessWager` starts with its wallets open, and `OpenWallet` takes a wager as one step; both
  are proved to keep the same books, but no module runs both statement by statement.
* The order in which a FIFO queue delivers to the consumer.

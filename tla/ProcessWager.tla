---------------------------- MODULE ProcessWager ----------------------------
(***************************************************************************)
(* ProcessWagerUseCase.Execute run by several goroutines (HTTP handlers, the *)
(* SQS consumer, the pending-reference worker; of one instance or of many)   *)
(* against one PostgreSQL database (READ COMMITTED) through a connection     *)
(* pool of bounded size.                                                     *)
(*                                                                           *)
(* A step of a process is one lookup or claim it sends to the database, with  *)
(* the computation that follows it.  What a transaction writes becomes       *)
(* visible when it commits, so its last writes and COMMIT are one step; what *)
(* it reads, it reads at earlier steps, and the lookups that go through the  *)
(* pool (not through the transaction) see what others committed meanwhile.   *)
(*                                                                           *)
(* The phase of a process (pc) says which statement comes next, and with it  *)
(* what the transaction holds:                                               *)
(*                                                                           *)
(*   idle, answered   between two requests                                   *)
(*   lookup           FindByIdempotencyKey, the fast path         (pool)     *)
(*   begin            acquire a connection and BEGIN              (pool)     *)
(*   lock             SELECT ... FOR UPDATE of the wallet         | a        *)
(*   claim            INSERT ... ON CONFLICT DO NOTHING        |  | conn.    *)
(*   raced            FindByIdempotencyKey again   (pool)      |  |          *)
(*   apply            business rule / FindByProvider... (pool) |l | is       *)
(*   reversal         FindProcessedReversal        (pool)      |oc|          *)
(*   settle           outcome of a reversal, COMMIT            |k | held     *)
(***************************************************************************)
EXTENDS Integers, Sequences, FiniteSets, Transaction, Wallet

CONSTANTS
  Processes,        \* goroutines that call Execute
  Keys, Exts, Providers, Players, Currencies,
  Wallets,          \* the rows of table wallets
  OtherWallets,     \* wallet ids a request may name that have no row
  Owner,            \* player_id of each wallet
  Currency,         \* currency of each wallet
  InitialBalance,   \* balance each wallet was opened with
  Requests,         \* the inputs the callers may send, again and again
  PoolSize,         \* DB_MAX_CONNS
  NoRef,            \* a request without referenceExternalTransactionId
  Null              \* SQL NULL, Go nil

Request ==
  [key : Keys, ext : Exts, provider : Providers, wallet : Wallets \cup OtherWallets,
   player : Players, currency : Currencies, kind : Kinds, amount : Int,
   ref : Exts \cup {NoRef}]

ASSUME RequestsAssumption == Requests \subseteq Request
ASSUME WalletsAssumption ==
  /\ Wallets \cap OtherWallets = {}
  /\ Owner \in [Wallets -> Players]
  /\ Currency \in [Wallets -> Currencies]
  /\ InitialBalance \in [Wallets -> 0..MaxInt]
  /\ \A v, w \in Wallets :          \* unique (player_id, currency)
       v # w => <<Owner[v], Currency[v]>> # <<Owner[w], Currency[w]>>
ASSUME PoolAssumption == PoolSize \in Nat \ {0}
ASSUME NullAssumption ==
  Null \notin Requests \cup Int \cup FailureCodes /\ NoRef \notin Exts

VARIABLES
  wallets,          \* table wallets: balance and version of each row
  txs,              \* table wager_transactions: the committed provider rows, in
                    \* commit order; a row's id is its position
  ledger,           \* table wallet_ledger_entries, per wallet
  outbox,           \* table outbox_events
  pc,               \* the statement each process sends next
  req,              \* the input it works on
  snap,             \* the wallet row it read under the lock
  ref,              \* the referenced transaction it found
  verdict,          \* what its lookups decided about a reversal
  out               \* the answer it gave

db == <<wallets, txs, ledger, outbox>>
vars == <<wallets, txs, ledger, outbox, pc, req, snap, ref, verdict, out>>

NoTx == 0           \* "no such row"; also the id of the wallet's OPENING row

(***************************************************************************)
(* What a transaction holds at each phase.                                  *)
(***************************************************************************)
Inserted == {"apply", "reversal", "settle"}
\* Mutant: a rollback that is not sent leaves the lock with an answered caller.
LockLeaks == {"claim", "raced", "answered"} \cup Inserted
LockHeld == {"claim", "raced"} \cup Inserted
InTx == {"lock"} \cup LockHeld

\* pgxpool: a statement outside the transaction needs a connection of its own.
FreeConnection == Cardinality({p \in Processes : pc[p] \in InTx}) < PoolSize

\* Mutant: SELECT without FOR UPDATE.
NeverLocked(w) == FALSE
\* Some transaction holds the row lock of wallet w.
Locked(w) == \E p \in Processes : pc[p] \in LockHeld /\ req[p].wallet = w

(***************************************************************************)
(* Queries.                                                                 *)
(***************************************************************************)
\* ComputePayloadHash: SHA-256 of every business field, not of the key.
PayloadHash(r) ==
  <<r.ext, r.provider, r.wallet, r.player, r.currency, r.kind, r.amount, r.ref>>

TheRow(rows) == IF rows = {} THEN NoTx ELSE CHOOSE i \in rows : TRUE

FindByIdempotencyKey(key) == TheRow({i \in DOMAIN txs : txs[i].req.key = key})

\* Mutant: the unique index on (provider_id, external_id) is missing.
NoExternalIndex(provider, ext) == NoTx
FindByProviderAndExternalID(provider, ext) ==
  TheRow({i \in DOMAIN txs : txs[i].req.provider = provider /\ txs[i].req.ext = ext})

\* Mutant: external_id is compared instead of reference_external_id.
ReversalByOwnId(provider, ext, kind) ==
  TheRow({i \in DOMAIN txs : /\ txs[i].req.provider = provider
                             /\ txs[i].req.ext = ext
                             /\ txs[i].req.kind = kind
                             /\ txs[i].status = "PROCESSED"})
FindProcessedReversal(provider, ext, kind) ==
  TheRow({i \in DOMAIN txs : /\ txs[i].req.provider = provider
                             /\ txs[i].req.ref = ext
                             /\ txs[i].req.kind = kind
                             /\ txs[i].status = "PROCESSED"})

(***************************************************************************)
(* Rows, events and answers.                                                *)
(***************************************************************************)
\* A row of wager_transactions as its transaction leaves it.
TxRow(r, status, code, result, refTx) ==
  [req |-> r, status |-> status, code |-> code, result |-> result, refTx |-> refTx]

Event(type, tx, entry, version) ==
  [type |-> type, tx |-> tx, entry |-> entry, version |-> version]

\* ProcessWagerOutput, and an error returned instead of one.
Output(tx, status, balance, code, replay) ==
  [tx |-> tx, status |-> status, balance |-> balance, code |-> code,
   replay |-> replay, error |-> "none"]
Failure(error) ==
  [tx |-> NoTx, status |-> "none", balance |-> Null, code |-> Null,
   replay |-> FALSE, error |-> error]

Goto(p, phase) == pc' = [pc EXCEPT ![p] = phase]

\* Execute returns; the transaction, if one was open, has ended.
Answer(p, o) ==
  /\ Goto(p, "answered")
  /\ out' = [out EXCEPT ![p] = o]
  /\ snap' = [snap EXCEPT ![p] = Null]
  /\ ref' = [ref EXCEPT ![p] = NoTx]
  /\ verdict' = [verdict EXCEPT ![p] = "none"]
  /\ UNCHANGED req

\* An error makes RunInTx roll everything back.
Abort(p, error) == Answer(p, Failure(error)) /\ UNCHANGED db

\* handleExistingTransaction.
HandleExisting(p, i) ==
  /\ IF PayloadHash(txs[i].req) = PayloadHash(req[p])
     THEN Answer(p, Output(i, txs[i].status, txs[i].result, txs[i].code, TRUE))
     ELSE Answer(p, Failure("IDEMPOTENCY_CONFLICT"))
  /\ UNCHANGED db

(***************************************************************************)
(* The ways a transaction that owns its key can commit.                     *)
(***************************************************************************)
NextId == Len(txs) + 1

\* ResolveReference is called once both lookups of a reversal have succeeded.
ResolvedReference(p) == IF verdict[p] = "move" THEN ref[p] ELSE NoTx

\* Mutant: Credit and Debit forget w.version++.
SameVersion(p) == snap[p].version
\* The version Credit and Debit give the wallet.
NextVersion(p) == snap[p].version + 1

\* UPDATE wallets ... WHERE version = the version read finds no row.
LostUpdate(p) == wallets[req[p].wallet].version # snap[p].version

\* publishProcessedEvent, publishBalanceChangedEvent.
SettlementEvents(p, entry) ==
  <<Event("Processed", NextId, Null, 0),
    Event("BalanceChanged", NextId, entry, NextVersion(p))>>

\* commitSuccess.  A lost update, or the CHECK constraint on the balance, makes
\* the transaction fail.
CommitSuccess(p, direction, amount) ==
  LET w     == req[p].wallet
      entry == LedgerEntry(NextId, direction, amount, snap[p].balance)
      row   == TxRow(req[p], "PROCESSED", Null, entry.after, ResolvedReference(p))
  IN  IF LostUpdate(p) THEN Abort(p, "LOST_UPDATE")
      ELSE IF entry.after < 0 THEN Abort(p, "CHECK_VIOLATION")
      ELSE /\ wallets' = [wallets EXCEPT ![w] = [balance |-> entry.after,
                                                 version |-> NextVersion(p)]]
           /\ txs' = Append(txs, row)
           /\ ledger' = [ledger EXCEPT ![w] = Append(@, entry)]
           /\ outbox' = outbox \o SettlementEvents(p, entry)
           /\ Answer(p, Output(NextId, "PROCESSED", entry.after, Null, FALSE))

\* Mutants: a refusal stored as PROCESSED; a refusal without an event.
RejectAsProcessed(p, code) ==
  /\ txs' = Append(txs, TxRow(req[p], "PROCESSED", code, snap[p].balance, ResolvedReference(p)))
  /\ outbox' = Append(outbox, Event("Rejected", NextId, Null, 0))
  /\ Answer(p, Output(NextId, "PROCESSED", snap[p].balance, code, FALSE))
  /\ UNCHANGED <<wallets, ledger>>
RejectSilently(p, code) ==
  /\ txs' = Append(txs, TxRow(req[p], "REJECTED", code, Null, ResolvedReference(p)))
  /\ Answer(p, Output(NextId, "REJECTED", snap[p].balance, code, FALSE))
  /\ UNCHANGED <<wallets, ledger, outbox>>
\* rejectTransaction: the row is kept, nothing moves; the answer carries the
\* balance of the moment, the row does not.
RejectTransaction(p, code) ==
  /\ txs' = Append(txs, TxRow(req[p], "REJECTED", code, Null, ResolvedReference(p)))
  /\ outbox' = Append(outbox, Event("Rejected", NextId, Null, 0))
  /\ Answer(p, Output(NextId, "REJECTED", snap[p].balance, code, FALSE))
  /\ UNCHANGED <<wallets, ledger>>

\* Wallet.Credit, then commitSuccess; an overflow is an error of Execute.
Credit(p, amount) ==
  IF CanCredit(snap[p].balance, amount)
  THEN CommitSuccess(p, "CREDIT", amount)
  ELSE Abort(p, "OVERFLOW")

\* Wallet.Debit, then commitSuccess; too small a balance rejects the wager.
Debit(p, amount, code) ==
  IF CanDebit(snap[p].balance, amount)
  THEN CommitSuccess(p, "DEBIT", amount)
  ELSE RejectTransaction(p, code)

(***************************************************************************)
(* Steps.                                                                   *)
(***************************************************************************)
\* A caller sends a request, for the first time or as a retry.
Receive(p, r) ==
  /\ pc[p] \in {"idle", "answered"}
  /\ Goto(p, "lookup")
  /\ req' = [req EXCEPT ![p] = r]
  /\ out' = [out EXCEPT ![p] = Null]
  /\ UNCHANGED <<db, snap, ref, verdict>>

\* Execute up to RunInTx: the fast path, then the refusal of OPENING.
Lookup(p) ==
  LET i == FindByIdempotencyKey(req[p].key)
  IN  /\ pc[p] = "lookup" /\ FreeConnection
      /\ \/ i # NoTx /\ HandleExisting(p, i)
         \/ i = NoTx /\ req[p].kind = "OPENING" /\ Abort(p, "INVALID_OPENING_KIND")
         \/ /\ i = NoTx /\ req[p].kind # "OPENING"
            /\ Goto(p, "begin")
            /\ UNCHANGED <<db, req, snap, ref, verdict, out>>

\* RunInTx: pool.Acquire, BEGIN.
Begin(p) ==
  /\ pc[p] = "begin" /\ FreeConnection
  /\ Goto(p, "lock")
  /\ UNCHANGED <<db, req, snap, ref, verdict, out>>

\* FindByIDWithLock and the checks on the wallet and the input that follow it.
LockWallet(p) ==
  LET r == req[p]
  IN  /\ pc[p] = "lock"
      /\ \/ r.wallet \notin Wallets /\ Abort(p, "WALLET_NOT_FOUND")
         \/ /\ r.wallet \in Wallets /\ ~Locked(r.wallet)
            /\ \/ Owner[r.wallet] # r.player /\ Abort(p, "OWNER_MISMATCH")
               \/ /\ Owner[r.wallet] = r.player /\ Currency[r.wallet] # r.currency
                  /\ Abort(p, "CURRENCY_MISMATCH")
               \/ /\ Owner[r.wallet] = r.player /\ Currency[r.wallet] = r.currency
                  /\ ~WellFormed(r.kind, r.amount, r.ref # NoRef)
                  /\ Abort(p, "INVALID_INPUT")
               \/ /\ Owner[r.wallet] = r.player /\ Currency[r.wallet] = r.currency
                  /\ WellFormed(r.kind, r.amount, r.ref # NoRef)
                  /\ Goto(p, "claim")
                  /\ snap' = [snap EXCEPT ![p] = wallets[r.wallet]]
                  /\ UNCHANGED <<db, req, ref, verdict, out>>

\* Mutant: the INSERT waits for lock holders that have not inserted anything yet.
KeyAwaited(p, q) ==
  /\ pc[q] \in LockHeld
  /\ \/ req[q].key = req[p].key
     \/ req[q].provider = req[p].provider /\ req[q].ext = req[p].ext
\* q has inserted a row with p's key or external id and has not ended.
KeyInDoubt(p, q) ==
  /\ pc[q] \in Inserted
  /\ \/ req[q].key = req[p].key
     \/ req[q].provider = req[p].provider /\ req[q].ext = req[p].ext

\* Mutant: the INSERT waits for nobody.
InsertNeverWaits(p) == FALSE
\* A row another transaction has inserted and not committed: the INSERT waits
\* for that transaction to end.
InsertConflicts(p) == \E q \in Processes \ {p} : KeyInDoubt(p, q)

\* TryCreate: ON CONFLICT covers the idempotency key only, so the unique index
\* on (provider_id, external_id) raises an error.
TryCreate(p) ==
  LET r == req[p]
      claimed == FindByIdempotencyKey(r.key) # NoTx
      known   == FindByProviderAndExternalID(r.provider, r.ext) # NoTx
  IN  /\ pc[p] = "claim"
      /\ \/ /\ claimed
            /\ Goto(p, "raced")
            /\ UNCHANGED <<db, req, snap, ref, verdict, out>>
         \/ ~claimed /\ known /\ ~InsertConflicts(p) /\ Abort(p, "DUPLICATE_EXTERNAL")
         \/ /\ ~claimed /\ ~known /\ ~InsertConflicts(p)
            /\ Goto(p, "apply")
            /\ UNCHANGED <<db, req, snap, ref, verdict, out>>

\* Mutant: after a lost race the hash is not compared.
AnswerRacedBlindly(p) ==
  /\ pc[p] = "raced" /\ FreeConnection
  /\ LET i == FindByIdempotencyKey(req[p].key)
     IN  Answer(p, Output(i, txs[i].status, txs[i].result, txs[i].code, TRUE))
  /\ UNCHANGED db
\* The claim lost the race: answer with what the winner committed.
AnswerRaced(p) ==
  /\ pc[p] = "raced" /\ FreeConnection
  /\ HandleExisting(p, FindByIdempotencyKey(req[p].key))

ProcessBet(p) ==
  /\ pc[p] = "apply" /\ req[p].kind = "BET"
  /\ Debit(p, req[p].amount, "INSUFFICIENT_BALANCE")

ProcessWin(p) ==
  /\ pc[p] = "apply" /\ req[p].kind = "WIN"
  /\ Credit(p, req[p].amount)

\* A LOSS leaves the wallet and the ledger alone and reports the balance it read.
ProcessLoss(p) ==
  /\ pc[p] = "apply" /\ req[p].kind = "LOSS"
  /\ txs' = Append(txs, TxRow(req[p], "PROCESSED", Null, snap[p].balance, NoTx))
  /\ outbox' = Append(outbox, Event("Processed", NextId, Null, 0))
  /\ Answer(p, Output(NextId, "PROCESSED", snap[p].balance, Null, FALSE))
  /\ UNCHANGED <<wallets, ledger>>

\* Mutant: the status of the reference is looked at only for PENDING.
RefusedReferencePasses(kind, i) ==
  IF i = NoTx \/ (i # NoTx /\ txs[i].status \in {"PENDING", "PENDING_REFERENCE"})
  THEN "postpone"
  ELSE IF txs[i].req.kind \notin ReversibleBy(kind) THEN "REFERENCE_NOT_FOUND"
  ELSE "move"
\* What processRefund and processRollback make of the reference they found.
ReferenceVerdict(kind, i) ==
  IF i = NoTx \/ (i # NoTx /\ txs[i].status \in {"PENDING", "PENDING_REFERENCE"})
  THEN "postpone"
  ELSE IF \/ txs[i].status \in {"REJECTED", "FAILED"}
          \/ txs[i].req.kind \notin ReversibleBy(kind)
  THEN "REFERENCE_NOT_FOUND"
  ELSE "move"

FindReference(p) ==
  LET i == FindByProviderAndExternalID(req[p].provider, req[p].ref)
      v == ReferenceVerdict(req[p].kind, i)
  IN  /\ pc[p] = "apply" /\ req[p].kind \in Reversals /\ FreeConnection
      /\ Goto(p, IF v = "move" THEN "reversal" ELSE "settle")
      /\ ref' = [ref EXCEPT ![p] = i]
      /\ verdict' = [verdict EXCEPT ![p] = v]
      /\ UNCHANGED <<db, req, snap, out>>

\* Mutant: the two checks swapped.
AmountBeforeReversal(r, original) ==
  IF /\ r.kind = "REFUND"
     /\ <<r.amount, r.currency>> # <<original.amount, original.currency>>
  THEN "AMOUNT_MISMATCH"
  ELSE IF FindProcessedReversal(r.provider, r.ref, r.kind) # NoTx
  THEN "REFERENCE_ALREADY_REVERSED"
  ELSE "move"
\* FindProcessedReversal looks for a reversal of the same kind; after it, a
\* REFUND's amount must be its reference's.
ReversalVerdict(r, original) ==
  IF FindProcessedReversal(r.provider, r.ref, r.kind) # NoTx
  THEN "REFERENCE_ALREADY_REVERSED"
  ELSE IF /\ r.kind = "REFUND"
          /\ <<r.amount, r.currency>> # <<original.amount, original.currency>>
  THEN "AMOUNT_MISMATCH"
  ELSE "move"

FindReversal(p) ==
  /\ pc[p] = "reversal" /\ FreeConnection
  /\ Goto(p, "settle")
  /\ verdict' = [verdict EXCEPT ![p] = ReversalVerdict(req[p], txs[ref[p]].req)]
  /\ UNCHANGED <<db, req, snap, ref, out>>

MarkPendingReference(p) ==
  /\ pc[p] = "settle" /\ verdict[p] = "postpone"
  /\ txs' = Append(txs, TxRow(req[p], "PENDING_REFERENCE", Null, Null, NoTx))
  /\ outbox' = Append(outbox, Event("PendingReference", NextId, Null, 0))
  /\ Answer(p, Output(NextId, "PENDING_REFERENCE", Null, Null, FALSE))
  /\ UNCHANGED <<wallets, ledger>>

RefuseReversal(p) ==
  /\ pc[p] = "settle" /\ verdict[p] \in FailureCodes
  /\ RejectTransaction(p, verdict[p])

SettleRefund(p) ==
  /\ pc[p] = "settle" /\ verdict[p] = "move" /\ req[p].kind = "REFUND"
  /\ Credit(p, req[p].amount)

\* Mutant: the rollback of a credit credits again.
RollbackCredits(p) ==
  /\ pc[p] = "settle" /\ verdict[p] = "move" /\ req[p].kind = "ROLLBACK"
  /\ Credit(p, txs[ref[p]].req.amount)
\* A ROLLBACK moves the reference's amount, in the opposite direction.
SettleRollback(p) ==
  LET original == txs[ref[p]].req
  IN  /\ pc[p] = "settle" /\ verdict[p] = "move" /\ req[p].kind = "ROLLBACK"
      /\ \/ /\ original.currency # Currency[req[p].wallet]
            /\ Abort(p, "CURRENCY_MISMATCH")
         \/ /\ original.currency = Currency[req[p].wallet]
            /\ original.kind = "BET"
            /\ Credit(p, original.amount)
         \/ /\ original.currency = Currency[req[p].wallet]
            /\ original.kind \in {"WIN", "REFUND"}
            /\ Debit(p, original.amount, "INSUFFICIENT_BALANCE_REVERSAL")

\* A cancelled context, a lost connection, a crash of the instance: the database
\* rolls back the transaction if it is still open, and nobody is answered.  From
\* "answered" it is the acknowledgement of COMMIT, or the answer, that is lost.
Fail(p) ==
  /\ pc[p] # "idle"
  /\ Goto(p, "idle")
  /\ req' = [req EXCEPT ![p] = Null]
  /\ snap' = [snap EXCEPT ![p] = Null]
  /\ ref' = [ref EXCEPT ![p] = NoTx]
  /\ verdict' = [verdict EXCEPT ![p] = "none"]
  /\ out' = [out EXCEPT ![p] = Null]
  /\ UNCHANGED db

(***************************************************************************)
(* Specification.                                                           *)
(***************************************************************************)
\* OpenWallet has committed: version 1, and one CREDIT from zero unless the
\* wallet was opened empty.
Opened(balance) ==
  IF balance = 0 THEN <<>> ELSE <<LedgerEntry(NoTx, "CREDIT", balance, 0)>>

Init ==
  /\ wallets = [w \in Wallets |-> [balance |-> InitialBalance[w], version |-> 1]]
  /\ txs = <<>>
  /\ ledger = [w \in Wallets |-> Opened(InitialBalance[w])]
  /\ outbox = <<>>
  /\ pc = [p \in Processes |-> "idle"]
  /\ req = [p \in Processes |-> Null]
  /\ snap = [p \in Processes |-> Null]
  /\ ref = [p \in Processes |-> NoTx]
  /\ verdict = [p \in Processes |-> "none"]
  /\ out = [p \in Processes |-> Null]

\* What process p does on its own account once it has a request.
Step(p) ==
  \/ Lookup(p) \/ Begin(p) \/ LockWallet(p) \/ TryCreate(p) \/ AnswerRaced(p)
  \/ ProcessBet(p) \/ ProcessWin(p) \/ ProcessLoss(p)
  \/ FindReference(p) \/ FindReversal(p) \/ MarkPendingReference(p)
  \/ RefuseReversal(p) \/ SettleRefund(p) \/ SettleRollback(p)

Next ==
  \E p \in Processes :
    \/ \E r \in Requests : Receive(p, r)
    \/ Step(p)
    \/ Fail(p)

Spec == Init /\ [][Next]_vars
=============================================================================

----------------------- MODULE ProcessWagerProperties -----------------------
(***************************************************************************)
(* What the wager processing of ProcessWager must guarantee.                 *)
(***************************************************************************)
EXTENDS ProcessWager

Phases == {"idle", "answered", "lookup", "begin"} \cup InTx

WalletRow == [balance : 0..MaxInt, version : Nat \ {0}]
Entry == [tx : Nat, direction : Directions, amount : 1..MaxInt,
          before : 0..MaxInt, after : 0..MaxInt]
Row == [req : Requests, status : Statuses, code : FailureCodes \cup {Null},
        result : 0..MaxInt \cup {Null}, refTx : Nat]
EventRow == [type : {"Processed", "BalanceChanged", "Rejected", "PendingReference"},
             tx : Nat \ {0}, entry : Entry \cup {Null}, version : Nat]

Errors ==
  {"INVALID_OPENING_KIND", "WALLET_NOT_FOUND", "OWNER_MISMATCH", "CURRENCY_MISMATCH",
   "INVALID_INPUT", "DUPLICATE_EXTERNAL", "IDEMPOTENCY_CONFLICT", "OVERFLOW",
   "LOST_UPDATE", "CHECK_VIOLATION"}
AnswerRow == [tx : Nat, status : Statuses \cup {"none"}, balance : 0..MaxInt \cup {Null},
              code : FailureCodes \cup {Null}, replay : BOOLEAN, error : Errors \cup {"none"}]

DbTypeOK ==
  /\ wallets \in [Wallets -> WalletRow]
  /\ txs \in Seq(Row)
  /\ ledger \in [Wallets -> Seq(Entry)]
  /\ outbox \in Seq(EventRow)

Refusals == {"REFERENCE_NOT_FOUND", "REFERENCE_ALREADY_REVERSED", "AMOUNT_MISMATCH"}
Verdicts == {"none", "postpone", "move"} \cup Refusals

ProcessTypeOK ==
  /\ pc \in [Processes -> Phases]
  /\ req \in [Processes -> Requests \cup {Null}]
  /\ snap \in [Processes -> WalletRow \cup {Null}]
  /\ ref \in [Processes -> 0..Len(txs)]
  /\ verdict \in [Processes -> Verdicts]
  /\ out \in [Processes -> AnswerRow \cup {Null}]

\* What each phase relies on.
PhaseOK ==
  \A p \in Processes :
    /\ pc[p] # "idle" => req[p] \in Requests
    /\ pc[p] = "answered" => out[p] \in AnswerRow
    /\ pc[p] \in LockHeld =>
         /\ req[p].wallet \in Wallets /\ snap[p] \in WalletRow
         /\ WellFormed(req[p].kind, req[p].amount, req[p].ref # NoRef)
    /\ pc[p] = "raced" => \E i \in DOMAIN txs : txs[i].req.key = req[p].key
    /\ pc[p] = "reversal" \/ verdict[p] = "move" => ref[p] \in DOMAIN txs

\* Every table row satisfies its column types and CHECK constraints (no negative
\* balance, no balance beyond int64), and every process has what its next
\* statement uses: a locked wallet row, the winner of a lost race, a reference.
TypeOK == DbTypeOK /\ ProcessTypeOK /\ PhaseOK

(***************************************************************************)
(* Money.                                                                   *)
(***************************************************************************)
\* The ledger of a wallet is one unbroken chain from zero to the wallet's
\* balance, and the wallet's version counts its entries: no movement is lost,
\* applied without an entry, or recorded out of order (commitSuccess 8a-8c).
LedgerExplainsBalance ==
  \A w \in Wallets :
    LET L == ledger[w]
        n == Len(L)
    IN  /\ \A i \in 1..n :
             /\ L[i].before = IF i = 1 THEN 0 ELSE L[i-1].after
             /\ L[i].after = Moved(L[i].before, L[i].direction, L[i].amount)
        /\ wallets[w].balance = IF n = 0 THEN 0 ELSE L[n].after
        /\ wallets[w].version = 1 + n - Len(Opened(InitialBalance[w]))

\* A provider's transaction has exactly one ledger entry, in its own wallet, when
\* it is PROCESSED and not a LOSS, and none otherwise; its stored result is the
\* balance after that entry.  (ledger.Create only in commitSuccess.)
EntryIffProcessed ==
  \A t \in DOMAIN txs :
    LET own == {e \in Wallets \X (1..Len(txs)+1) :
                  e[2] \in DOMAIN ledger[e[1]] /\ ledger[e[1]][e[2]].tx = t}
        moves == txs[t].status = "PROCESSED" /\ txs[t].req.kind # "LOSS"
    IN  /\ Cardinality(own) = IF moves THEN 1 ELSE 0
        /\ \A e \in own : /\ e[1] = txs[t].req.wallet
                          /\ txs[t].result = ledger[e[1]][e[2]].after

\* The defences behind the row lock never trip: UPDATE ... WHERE version finds
\* the version read under the lock (wallet_repo.go: "isso nunca deveria
\* ocorrer"), and the CHECK on the balance never refuses what the domain allowed.
DefencesNeverTrip ==
  \A p \in Processes :
    out[p] # Null => out[p].error \notin {"LOST_UPDATE", "CHECK_VIOLATION"}

\* SELECT ... FOR UPDATE: no two transactions hold the lock of one wallet, and
\* whoever holds it still sees the wallet as it is in the table.
LockExclusive ==
  \A p, q \in Processes :
    p # q /\ pc[p] \in LockHeld /\ pc[q] \in LockHeld => req[p].wallet # req[q].wallet
SnapshotCurrent ==
  \A p \in Processes : pc[p] \in LockHeld => snap[p] = wallets[req[p].wallet]
LockProtectsWallet == LockExclusive /\ SnapshotCurrent

\* The decision is taken on the state it is committed on: the balance a PROCESSED
\* row reports is the wallet's at that moment, a BET is refused only if the
\* wallet cannot pay it at that moment, and never because of an older balance.
DecisionIsCurrent ==
  Len(txs') > Len(txs) =>
    LET row == txs'[Len(txs')]
    IN  /\ row.status = "PROCESSED" => row.result = wallets'[row.req.wallet].balance
        /\ row.code = "INSUFFICIENT_BALANCE" =>
             wallets[row.req.wallet].balance < row.req.amount
DecisionsAreCurrent == [][DecisionIsCurrent]_vars

(***************************************************************************)
(* Idempotency.                                                             *)
(***************************************************************************)
\* However callers retry and race, an idempotency key and a provider's external
\* id are each claimed by at most one committed transaction.
ClaimedOnce ==
  \A i, j \in DOMAIN txs :
    i # j => /\ txs[i].req.key # txs[j].req.key
             /\ <<txs[i].req.provider, txs[i].req.ext>>
                  # <<txs[j].req.provider, txs[j].req.ext>>

\* Whoever is answered without an error is answered about the payload it sent,
\* with the committed status, failure code and (if PROCESSED) balance of that
\* transaction, whether it is the original or a replay.
AnswersAreCommitted ==
  \A p \in Processes :
    pc[p] = "answered" /\ out[p].error = "none" =>
      /\ out[p].tx \in DOMAIN txs
      /\ LET row == txs[out[p].tx]
         IN  /\ row.req = req[p]
             /\ out[p].status = row.status /\ out[p].code = row.code
             /\ row.status = "PROCESSED" => out[p].balance = row.result

(***************************************************************************)
(* Reversals.                                                               *)
(***************************************************************************)
\* The ledger entry of transaction t.
EntryOf(t) ==
  LET L == ledger[txs[t].req.wallet]
  IN  L[CHOOSE i \in DOMAIN L : L[i].tx = t]

IsPaidReversal(t) == txs[t].status = "PROCESSED" /\ txs[t].req.kind \in Reversals

\* A paid reversal points to the earlier transaction it names, that one is paid,
\* and the two ledger movements are opposite and equal in amount.
ReversalUndoesReference ==
  \A t \in DOMAIN txs :
    IsPaidReversal(t) =>
      LET o == txs[t].refTx
      IN  /\ o \in 1..(t-1)
          /\ txs[o].req.provider = txs[t].req.provider
          /\ txs[o].req.ext = txs[t].req.ref
          /\ txs[o].status = "PROCESSED"
          /\ txs[o].req.kind \in ReversibleBy(txs[t].req.kind)
          /\ EntryOf(t).amount = EntryOf(o).amount
          /\ EntryOf(t).direction # EntryOf(o).direction

SameReference(s, t) ==
  /\ IsPaidReversal(s) /\ IsPaidReversal(t)
  /\ txs[s].req.provider = txs[t].req.provider /\ txs[s].req.ref = txs[t].req.ref

\* A transaction is refunded at most once and rolled back at most once.
OneReversalPerKind ==
  \A s, t \in DOMAIN txs :
    SameReference(s, t) /\ txs[s].req.kind = txs[t].req.kind => s = t

\* A reversal waits for its reference only if the reference had not been settled
\* when it committed.
PendingOnlyIfUnsettled ==
  \A t \in DOMAIN txs :
    txs[t].status = "PENDING_REFERENCE" =>
      \A o \in 1..(t-1) :
        /\ txs[o].req.provider = txs[t].req.provider
        /\ txs[o].req.ext = txs[t].req.ref
        => txs[o].status = "PENDING_REFERENCE"

(***************************************************************************)
(* Events.                                                                  *)
(***************************************************************************)
\* Where the outbox has the events of transaction t, and the balance events of wallet w.
EventsOf(t) == {i \in DOMAIN outbox : outbox[i].tx = t}
BalanceEvents(w) ==
  {i \in DOMAIN outbox : outbox[i].type = "BalanceChanged" /\ txs[outbox[i].tx].req.wallet = w}

\* What tells of a transaction that moved nothing.
EventType(status) ==
  IF status = "REJECTED" THEN "Rejected"
  ELSE IF status = "PENDING_REFERENCE" THEN "PendingReference" ELSE "Processed"

\* The outbox tells exactly the committed story: the events of a transaction are
\* those of its final status, and if it moved its wallet, a BalanceChanged event follows
\* its Processed event and repeats its ledger entry.
OutboxTellsStory ==
  \A t \in DOMAIN txs :
    \E i, j \in EventsOf(t) :
      /\ EventsOf(t) = {i, j} /\ i <= j
      /\ outbox[i].type = EventType(txs[t].status)
      /\ IF txs[t].status = "PROCESSED" /\ txs[t].req.kind # "LOSS"
         THEN outbox[j].type = "BalanceChanged" /\ outbox[j].entry = EntryOf(t)
         ELSE i = j

\* The balance events of a wallet, in outbox order, carry consecutive wallet
\* versions starting at 2: a consumer can detect a gap or a reordering.
BalanceEventsAreGapless ==
  \A w \in Wallets : \A i \in BalanceEvents(w) :
    outbox[i].version = 2 + Cardinality({j \in BalanceEvents(w) : j < i})

(***************************************************************************)
(* Refinement and progress.                                                 *)
(***************************************************************************)
\* References do not cross wallets: then everything a reversal reads is
\* protected by the lock it holds.
ReferencesStayInWallet ==
  \A r, s \in Requests :
    r.kind \in Reversals /\ r.provider = s.provider =>
      /\ s.ext = r.ref => s.wallet = r.wallet
      /\ s.kind \in Reversals /\ s.ref = r.ref => s.wallet = r.wallet

\* What transaction t did to its wallet.
Moves(t) ==
  IF txs[t].status = "PROCESSED" /\ txs[t].req.kind # "LOSS"
  THEN EntryOf(t).after - EntryOf(t).before
  ELSE 0

AbstractOutcome(t) ==
  [req |-> txs[t].req, status |-> txs[t].status,
   code |-> IF txs[t].code = Null THEN "none" ELSE txs[t].code, moved |-> Moves(t)]

Atomic == INSTANCE AtomicWager WITH
  balance <- [w \in Wallets |-> wallets[w].balance],
  settled <- [t \in DOMAIN txs |-> AbstractOutcome(t)]

\* While references stay in their wallet, the concurrent use case implements the
\* atomic one: every commit is one indivisible settlement against the current
\* balance and the wagers settled before.
ImplementsAtomic == Atomic!Spec

Books == INSTANCE WalletBooks

\* However the callers race, a wallet's row and its ledger change only together,
\* by one movement at a time that the domain allows from the balance in the table,
\* and no transaction moves a wallet twice (commitSuccess 8a-8c): what the openings
\* and the reads of wallets rely on.
KeepsBooks == Books!Spec

(***************************************************************************)
(* Waiting.                                                                 *)
(***************************************************************************)
\* Inside Execute.
Running(p) == pc[p] \notin {"idle", "answered"}

\* p's next statement needs a connection that p does not hold.
NeedsConnection(p) ==
  \/ pc[p] \in {"lookup", "begin", "raced", "reversal"}
  \/ pc[p] = "apply" /\ req[p].kind \in Reversals

\* p waits for the end of q's transaction, which holds the row lock of its wallet
\* or has inserted its key.
WaitsFor(p, q) ==
  \/ pc[p] = "lock" /\ pc[q] \in LockHeld /\ req[q].wallet = req[p].wallet
  \/ /\ pc[p] = "claim" /\ FindByIdempotencyKey(req[p].key) = NoTx
     /\ q # p /\ KeyInDoubt(p, q)

Waits(p) ==
  \/ NeedsConnection(p) /\ ~FreeConnection
  \/ \E q \in Processes : WaitsFor(p, q)

\* The switches on the kind, and what was found, have a case for p.
HasCase(p) ==
  /\ pc[p] = "raced" => FindByIdempotencyKey(req[p].key) # NoTx
  /\ pc[p] = "apply" => req[p].kind \in {"BET", "WIN", "LOSS"} \cup Reversals
  /\ pc[p] = "reversal" => ref[p] \in DOMAIN txs
  /\ pc[p] = "settle" =>
       \/ verdict[p] = "postpone" \/ verdict[p] \in FailureCodes
       \/ verdict[p] = "move" /\ req[p].kind = "REFUND"
       \/ /\ verdict[p] = "move" /\ req[p].kind = "ROLLBACK"
          /\ ref[p] \in DOMAIN txs /\ txs[ref[p]].req.kind \in {"BET", "WIN", "REFUND"}

CanProceed(p) == Running(p) /\ ~Waits(p) /\ HasCase(p)

\* Execute has a case for whatever its lookups return: a call that waits for no
\* connection, lock or key goes on.  (The switch of processRollback on the
\* reference's kind has no default: a kind without a case would commit without an
\* entry.)
EveryCaseIsHandled ==
  \A p \in Processes : Running(p) /\ ~Waits(p) => ENABLED Step(p)

\* Open transactions never wait in a circle, not even some of them beside others
\* that go on: what one waits for can go on, or waits for one that can.
EveryWaitEnds ==
  \A p \in Processes : pc[p] \in InTx =>
    \/ CanProceed(p)
    \/ \E q \in Processes :
         /\ WaitsFor(p, q)
         /\ CanProceed(q) \/ \E s \in Processes : WaitsFor(q, s) /\ CanProceed(s)

\* Open transactions never all wait for each other: one of them can go on.
\* (executeInTransaction, PASSO 5: the wallet is always locked first "para
\* evitar deadlock".)
SomeoneCanProceed ==
  (\E p \in Processes : pc[p] \in InTx) =>
    \E p \in Processes : pc[p] \in InTx /\ CanProceed(p)

\* Every caller gets an answer unless its own execution fails.
EveryRequestAnswered ==
  \A p \in Processes : pc[p] = "lookup" ~> pc[p] \in {"answered", "idle"}
=============================================================================

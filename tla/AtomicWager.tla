----------------------------- MODULE AtomicWager -----------------------------
(***************************************************************************)
(* What ProcessWagerUseCase promises: each wager is settled at most once, in *)
(* one indivisible step, by the balance and the wagers settled before it.    *)
(* There are no processes, locks, snapshots, claims or retries here.         *)
(***************************************************************************)
EXTENDS Integers, Sequences, Transaction, Wallet

CONSTANTS Wallets, Owner, Currency, InitialBalance, Requests, NoRef

VARIABLES
  balance,    \* of each wallet
  settled     \* the outcomes so far: [req, status, code, moved]

avars == <<balance, settled>>

Outcome(r, status, code, moved) ==
  [req |-> r, status |-> status, code |-> code, moved |-> moved]

Init == balance = InitialBalance /\ settled = <<>>

(***************************************************************************)
(* The wagers a request meets.                                              *)
(***************************************************************************)
\* The wager a reversal names: same provider, external id = reference.
Referenced(r) ==
  {i \in DOMAIN settled :
     settled[i].req.provider = r.provider /\ settled[i].req.ext = r.ref}

\* A reversal of the same kind has already been paid for this reference.
AlreadyReversed(r) ==
  \E i \in DOMAIN settled :
    /\ settled[i].req.provider = r.provider /\ settled[i].req.ref = r.ref
    /\ settled[i].req.kind = r.kind /\ settled[i].status = "PROCESSED"

\* Neither the idempotency key nor the provider's external id is taken.
Fresh(r) ==
  \A i \in DOMAIN settled :
    /\ settled[i].req.key # r.key
    /\ <<settled[i].req.provider, settled[i].req.ext>> # <<r.provider, r.ext>>

Accepted(r) ==
  /\ r.wallet \in Wallets
  /\ Owner[r.wallet] = r.player
  /\ Currency[r.wallet] = r.currency
  /\ WellFormed(r.kind, r.amount, r.ref # NoRef)

(***************************************************************************)
(* The outcomes.                                                            *)
(***************************************************************************)
Record(r, status, code, moved) ==
  /\ settled' = Append(settled, Outcome(r, status, code, moved))
  /\ balance' = [balance EXCEPT ![r.wallet] = @ + moved]

Reject(r, code) == Record(r, "REJECTED", code, 0)

Pay(r, amount) ==
  CanCredit(balance[r.wallet], amount) /\ Record(r, "PROCESSED", "none", amount)

Charge(r, amount, code) ==
  \/ CanDebit(balance[r.wallet], amount) /\ Record(r, "PROCESSED", "none", -amount)
  \/ ~CanDebit(balance[r.wallet], amount) /\ Reject(r, code)

SettleBet(r) == r.kind = "BET" /\ Charge(r, r.amount, "INSUFFICIENT_BALANCE")
SettleWin(r) == r.kind = "WIN" /\ Pay(r, r.amount)
SettleLoss(r) == r.kind = "LOSS" /\ Record(r, "PROCESSED", "none", 0)

\* The reference is unknown, or itself waits for a reference.
Postpone(r) ==
  /\ r.kind \in Reversals
  /\ \A i \in Referenced(r) : settled[i].status = "PENDING_REFERENCE"
  /\ Record(r, "PENDING_REFERENCE", "none", 0)

\* The reference has been refused, or is of a kind this reversal cannot undo.
RefuseReference(r) ==
  /\ r.kind \in Reversals
  /\ \E i \in Referenced(r) :
       \/ settled[i].status = "REJECTED"
       \/ settled[i].status = "PROCESSED" /\ settled[i].req.kind \notin ReversibleBy(r.kind)
  /\ Reject(r, "REFERENCE_NOT_FOUND")

\* The reference is paid and can be undone by r, once.
Reverse(r) ==
  \E i \in Referenced(r) :
    LET original == settled[i].req
        same == r.kind = "REFUND" => original.amount = r.amount
    IN  /\ r.kind \in Reversals
        /\ settled[i].status = "PROCESSED"
        /\ original.kind \in ReversibleBy(r.kind)
        /\ \/ AlreadyReversed(r) /\ Reject(r, "REFERENCE_ALREADY_REVERSED")
           \/ ~AlreadyReversed(r) /\ ~same /\ Reject(r, "AMOUNT_MISMATCH")
           \/ /\ ~AlreadyReversed(r) /\ same
              /\ \/ original.kind = "BET" /\ Pay(r, original.amount)
                 \/ /\ original.kind # "BET"
                    /\ Charge(r, original.amount, "INSUFFICIENT_BALANCE_REVERSAL")

Settle(r) ==
  /\ Fresh(r) /\ Accepted(r)
  /\ \/ SettleBet(r) \/ SettleWin(r) \/ SettleLoss(r)
     \/ Postpone(r) \/ RefuseReference(r) \/ Reverse(r)

Next == \E r \in Requests : Settle(r)

Spec == Init /\ [][Next]_avars
=============================================================================

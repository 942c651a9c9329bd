------------------------------- MODULE Wallet -------------------------------
(***************************************************************************)
(* The wallet aggregate's two movements and the ledger entry each of them    *)
(* produces (internal/domain/wallet/{wallet,ledger}.go).  The operators are  *)
(* about one wallet in one currency; the callers check the currency.         *)
(***************************************************************************)
EXTENDS Money

Directions == {"CREDIT", "DEBIT"}

\* Mutant: the balance is added to without looking at overflow.
CreditUnchecked(balance, amount) == amount > 0
\* Wallet.Credit succeeds: a positive amount and no overflow of the balance.
CanCredit(balance, amount) == amount > 0 /\ AddFits(balance, amount)

\* Wallet.Debit succeeds: a positive amount that the balance covers.  (Money.Sub
\* cannot overflow then: lemma DebitFits.)
CanDebit(balance, amount) == amount > 0 /\ balance >= amount

Moved(balance, direction, amount) ==
  IF direction = "CREDIT" THEN balance + amount ELSE balance - amount

\* Mutant: the entry is made after the balance has been replaced.
LateLedgerEntry(tx, direction, amount, before) ==
  [tx |-> tx, direction |-> direction, amount |-> amount,
   before |-> Moved(before, direction, amount),
   after |-> Moved(before, direction, amount)]
\* NewWalletLedgerEntry: the movement with the balances around it.
LedgerEntry(tx, direction, amount, before) ==
  [tx |-> tx, direction |-> direction, amount |-> amount,
   before |-> before, after |-> Moved(before, direction, amount)]
=============================================================================

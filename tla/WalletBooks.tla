---------------------------- MODULE WalletBooks ----------------------------
(***************************************************************************)
(* What table wallets and table wallet_ledger_entries promise together to    *)
(* whoever reads them: a wallet appears with the entry that explains its     *)
(* first balance, and afterwards a balance changes only together with the    *)
(* one entry that explains the change, by what Wallet.Credit or Wallet.Debit *)
(* allow from the balance in the table ("cada mudanca de saldo gera          *)
(* exatamente um WalletLedgerEntry correspondente", wallet.go).  There are no *)
(* requests, transactions or callers here.                                  *)
(***************************************************************************)
EXTENDS Wallet, Sequences

VARIABLES
  wallets,          \* the row of each wallet there is, by id
  ledger            \* its entries, in commit order

books == <<wallets, ledger>>

OpeningTx == 0      \* the OPENING transaction of a wallet

OpeningEntries(balance) ==
  IF balance = 0 THEN <<>> ELSE <<LedgerEntry(OpeningTx, "CREDIT", balance, 0)>>

\* A wallet as its opening leaves it.
New(row, entries) ==
  row.balance \in 0..MaxInt /\ row.version = 1 /\ entries = OpeningEntries(row.balance)

Init ==
  /\ DOMAIN ledger = DOMAIN wallets
  /\ \A w \in DOMAIN wallets : New(wallets[w], ledger[w])

Open(w) ==
  /\ w \notin DOMAIN wallets
  /\ DOMAIN wallets' = DOMAIN wallets \cup {w} /\ DOMAIN ledger' = DOMAIN ledger \cup {w}
  /\ \A v \in DOMAIN wallets : wallets'[v] = wallets[v] /\ ledger'[v] = ledger[v]
  /\ New(wallets'[w], ledger'[w])

\* Transaction tx, which has not moved wallet w yet, moves it.
Move(w, tx, direction, amount) ==
  LET before == wallets[w].balance
      entry  == LedgerEntry(tx, direction, amount, before)
  IN  /\ tx # OpeningTx /\ \A i \in DOMAIN ledger[w] : ledger[w][i].tx # tx
      /\ \/ direction = "CREDIT" /\ CanCredit(before, amount)
         \/ direction = "DEBIT" /\ CanDebit(before, amount)
      /\ wallets' = [wallets EXCEPT ![w].balance = entry.after, ![w].version = @ + 1]
      /\ ledger' = [ledger EXCEPT ![w] = Append(@, entry)]

Next ==
  \/ \E w \in DOMAIN wallets' : Open(w)
  \/ \E w \in DOMAIN wallets : \E i \in DOMAIN ledger'[w] :
       LET e == ledger'[w][i] IN Move(w, e.tx, e.direction, e.amount)

Spec == Init /\ [][Next]_books
=============================================================================

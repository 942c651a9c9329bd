----------------------------- MODULE WalletReads -----------------------------
(***************************************************************************)
(* What is read of wallets while openings and wagers go on: the              *)
(* reconciliation of a wallet with its ledger, two reads through the pool,    *)
(* and the ledger in pages, one read for each page, by a client that follows *)
(* nextCursor until a page is empty.                                         *)
(*                                                                           *)
(* Pages are cut in the order (created_at, id).  The stamp of an entry is    *)
(* the clock of the instance that made it, so an entry may come before one   *)
(* that was committed earlier.                                               *)
(***************************************************************************)
EXTENDS OpenWallet, Rows

CONSTANTS
  Auditors,         \* goroutines that run HandleReconcileWallet
  Readers,          \* clients that page through a ledger
  PageSize          \* 50

ASSUME PageAssumption == PageSize \in Nat \ {0}

VARIABLES
  order,            \* positions of each ledger's entries by (created_at, id)
  audit,            \* what each auditor has read and answered
  paging            \* what each reader has been given

readVars == <<openVars, order, audit, paging>>

NoEntry == 0
NoAudit == [phase |-> "idle", wallet |-> NoWallet, balance |-> 0, moved |-> 0]
NoPages == [phase |-> "idle", wallet |-> NoWallet, cursor |-> NoEntry, seen |-> <<>>, late |-> {}]

Entries(w) == 1..Len(ledger[w])
PositionOf(w, i) == Place(order[w], i)

(***************************************************************************)
(* Openings and wagers.                                                     *)
(***************************************************************************)
CreateWallet(o) ==
  /\ CommitOpening(o)
  /\ order' = Append(order, [i \in DOMAIN OpeningEntry(Balance(request[o])) |-> i])
  /\ UNCHANGED <<audit, paging>>

\* History: what moved since an auditor read the balance; the entries that came
\* before a reader's cursor, or after its last page.  A new entry is put behind the
\* first n of its wallet's.
Signed(direction, amount) == IF direction = "CREDIT" THEN amount ELSE -amount
AuditsMoved(w, change) ==
  [a \in Auditors |-> IF audit[a].phase = "balance" /\ audit[a].wallet = w
                      THEN [audit[a] EXCEPT !.moved = @ + change] ELSE audit[a]]
Passed(w, n) ==
  {g \in Readers :
     /\ paging[g].wallet = w
     /\ \/ paging[g].phase = "done"
        \/ paging[g].cursor # NoEntry /\ n < PositionOf(w, paging[g].cursor)}
PagingsPassed(w, n) ==
  [g \in Readers |-> IF g \in Passed(w, n)
                     THEN [paging[g] EXCEPT !.late = @ \cup {Len(ledger[w]) + 1}]
                     ELSE paging[g]]

\* The entry of a wager takes its place behind the first n.
Settle(w, direction, amount, n) ==
  /\ SettleWager(w, direction, amount)
  /\ order' = [order EXCEPT ![w] = Insert(@, n, <<Len(ledger[w]) + 1>>)]
  /\ audit' = AuditsMoved(w, Signed(direction, amount))
  /\ paging' = PagingsPassed(w, n)

(***************************************************************************)
(* Reconciliation.                                                          *)
(***************************************************************************)
\* FindByID.
ReadBalance(a, w) ==
  /\ audit[a].phase # "balance"
  /\ audit' = [audit EXCEPT ![a] =
       IF w = NoWallet THEN [NoAudit EXCEPT !.phase = "error"]
       ELSE [phase |-> "balance", wallet |-> w, balance |-> wallets[w].balance, moved |-> 0]]
  /\ UNCHANGED <<openVars, order, paging>>

\* What an entry adds to the sum of a direction.
Share(entry, direction) == IF entry.direction = direction THEN entry.amount ELSE 0

\* Mutant: only what providers moved is summed.
SumOfWagers(w, direction) ==
  Total([i \in DOMAIN ledger[w] |->
           IF ledger[w][i].tx # OpeningTx THEN Share(ledger[w][i], direction) ELSE 0])
SumByWalletID(w, direction) ==
  Total([i \in DOMAIN ledger[w] |-> Share(ledger[w][i], direction)])

\* SumByWalletID, whose sums must fit an int64, and the comparison.
ReadSums(a) ==
  LET w       == audit[a].wallet
      credits == SumByWalletID(w, "CREDIT")
      debits  == SumByWalletID(w, "DEBIT")
  IN  /\ audit[a].phase = "balance"
      /\ audit' = [audit EXCEPT ![a].phase =
           IF credits > MaxInt \/ debits > MaxInt THEN "error"
           ELSE IF credits - debits = audit[a].balance THEN "consistent" ELSE "inconsistent"]
      /\ UNCHANGED <<openVars, order, paging>>

(***************************************************************************)
(* Paging.                                                                  *)
(***************************************************************************)
StartPaging(g, w) ==
  /\ paging[g].phase \in {"idle", "done"}
  /\ paging' = [paging EXCEPT ![g] = [NoPages EXCEPT !.phase = "reading", !.wallet = w]]
  /\ UNCHANGED <<openVars, order, audit>>

\* Mutants: the entry at the cursor is read again; the entry after it is left out.
FromCursor(w, cursor) == IF cursor = NoEntry THEN 1 ELSE PositionOf(w, cursor)
BeyondCursor(w, cursor) == IF cursor = NoEntry THEN 1 ELSE PositionOf(w, cursor) + 2
\* The first place behind the cursor: (created_at, id) > cursor.
AfterCursor(w, cursor) == IF cursor = NoEntry THEN 1 ELSE PositionOf(w, cursor) + 1

\* What a reader has after a page.
WithPage(P, page) ==
  IF page = <<>> THEN [P EXCEPT !.phase = "done"]
  ELSE [P EXCEPT !.seen = @ \o page, !.cursor = LastRow(page)]

\* Mutant: the cursor is the entry after the page.
PageAndNext(g) ==
  LET w    == paging[g].wallet
      from == AfterCursor(w, paging[g].cursor)
  IN  /\ paging[g].phase = "reading" /\ from < Len(order[w])
      /\ paging' = [paging EXCEPT ![g].seen = Append(@, order[w][from]),
                                  ![g].cursor = order[w][from + 1]]
      /\ UNCHANGED <<openVars, order, audit>>
\* FindByWalletID; nextCursor is the last entry of the page.
ReadPage(g) ==
  LET w    == paging[g].wallet
      from == AfterCursor(w, paging[g].cursor)
      page == SubSeq(order[w], from, IF from + PageSize - 1 < Len(order[w])
                                     THEN from + PageSize - 1 ELSE Len(order[w]))
  IN  /\ paging[g].phase = "reading"
      /\ paging' = [paging EXCEPT ![g] = WithPage(@, page)]
      /\ UNCHANGED <<openVars, order, audit>>

(***************************************************************************)
(* Specification.                                                           *)
(***************************************************************************)
ReadsInit ==
  /\ OpenInit /\ order = <<>>
  /\ audit = [a \in Auditors |-> NoAudit]
  /\ paging = [g \in Readers |-> NoPages]

ReadsNext ==
  \/ \E o \in Openers :
       \/ /\ (\E r \in Openings : ReceiveOpening(o, r))
             \/ LookupWallet(o) \/ InsertWallet(o) \/ FailOpening(o)
          /\ UNCHANGED <<order, audit, paging>>
       \/ CreateWallet(o)
  \/ \E w \in DOMAIN wallets :
       \E d \in Directions, amount \in Wagers, n \in 0..Len(order[w]) :
         Settle(w, d, amount, n)
  \/ \E a \in Auditors :
       (\E w \in DOMAIN wallets \cup {NoWallet} : ReadBalance(a, w)) \/ ReadSums(a)
  \/ \E g \in Readers : (\E w \in DOMAIN wallets : StartPaging(g, w)) \/ ReadPage(g)

ReadsSpec == ReadsInit /\ [][ReadsNext]_readVars

(***************************************************************************)
(* Properties.                                                              *)
(***************************************************************************)
\* The order of a ledger holds each entry once (a page is cut by comparing
\* (created_at, id), which no two entries share), and a cursor is the last entry
\* its reader was given (wallet_handler.go: nextCursor).
ReadsTypeOK ==
  /\ Len(order) = Len(wallets)
  /\ \A w \in DOMAIN order : Members(order[w]) = Entries(w) /\ Len(order[w]) = Len(ledger[w])
  /\ \A a \in Auditors :
       audit[a].phase \in {"idle", "balance", "consistent", "inconsistent", "error"}
  /\ \A g \in Readers :
       /\ paging[g].phase \in {"idle", "reading", "done"}
       /\ paging[g].cursor = IF paging[g].seen = <<>> THEN NoEntry ELSE LastRow(paging[g].seen)

\* The two reads are not atomic, but a reconciliation that says "inconsistent"
\* has an innocent explanation and "consistent" hides nothing: the difference is
\* exactly what was committed between them (reconcile_wallet.go, 39-62).
ReconciliationIsExplained ==
  \A a \in Auditors :
    audit[a].phase \in {"consistent", "inconsistent"} =>
      (audit[a].phase = "consistent" <=> audit[a].moved = 0)

\* Pages that are read while entries arrive never repeat an entry and keep the
\* order (repositories.go, 62: "Ordenacao estavel").
PagesDoNotOverlap ==
  \A g \in Readers :
    LET seen == paging[g].seen
        w    == paging[g].wallet
    IN  \A i, j \in DOMAIN seen : i < j => PositionOf(w, seen[i]) < PositionOf(w, seen[j])

\* A client that has followed the cursor to the end has been given every entry,
\* except those committed meanwhile with a stamp before its cursor (and those
\* committed after its last page).
SkippedOnlyIfLate ==
  \A g \in Readers :
    paging[g].phase = "done" =>
      Entries(paging[g].wallet) \subseteq Members(paging[g].seen) \cup paging[g].late
=============================================================================

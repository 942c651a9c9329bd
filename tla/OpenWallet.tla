----------------------------- MODULE OpenWallet -----------------------------
(***************************************************************************)
(* OpenWalletUseCase.Execute run by several callers: a lookup through the    *)
(* pool, and one transaction that inserts the wallet and, unless it opens    *)
(* empty, its OPENING transaction, its first ledger entry and two events.    *)
(* Wager processing goes on meanwhile; what it does to a wallet is one step  *)
(* here, the movement of module WalletBooks, which ProcessWager implements.  *)
(*                                                                           *)
(* The phase of an opener (pc):                                              *)
(*                                                                           *)
(*   idle, answered   between two requests                                   *)
(*   lookup           FindByPlayerAndCurrency, NewWallet                     *)
(*   insert           BEGIN, INSERT INTO wallets                             *)
(*   inserted         the rest of doInsert, COMMIT                           *)
(***************************************************************************)
EXTENDS Wallet, Sequences, FiniteSets

CONSTANTS
  Openers,          \* goroutines that run HandleOpenWallet
  Openings,         \* the requests they may be sent, again and again
  Upper,            \* the currency each spelling of a code stands for
  MaxSettled,       \* bound on the wagers settled on a wallet
  Wagers,           \* amounts of the wagers settled
  NoOpening         \* no request, no answer

\* A request: the player, the currency as spelt, the opening balance as a decimal.
ASSUME OpeningsAssumption ==
  /\ \A r \in Openings :
       r.currency \in DOMAIN Upper /\ r.balance \in Decimal /\ Parses(r.balance)
  /\ NoOpening \notin Openings
ASSUME WagersAssumption == Wagers \subseteq 1..MaxInt /\ MaxSettled \in Nat

VARIABLES
  wallets,          \* table wallets, in commit order; a row's id is its position
  ledger,           \* ledger entries of each wallet
  events,           \* rows of outbox_events about each wallet's opening
  pc,
  request,          \* what each opener was asked for
  answer            \* what it answered

tables == <<wallets, ledger, events>>
openerVars == <<pc, request, answer>>
openVars == <<tables, openerVars>>

Books == INSTANCE WalletBooks

NoWallet == 0
OpeningTx == 0      \* the OPENING transaction of a wallet

Balance(r) == Parsed(r.balance)

\* HandleOpenWallet's answers.
Opened(w, created) == [wallet |-> w, created |-> created, error |-> "none"]
Refused(error) == [wallet |-> NoWallet, created |-> FALSE, error |-> error]

Row(r) == [player |-> r.player, currency |-> r.currency, balance |-> Balance(r), version |-> 1]
SameKey(row, r) == row.player = r.player /\ row.currency = r.currency

FindByPlayerAndCurrency(r) ==
  LET rows == {w \in DOMAIN wallets : SameKey(wallets[w], r)}
  IN  IF rows = {} THEN NoWallet ELSE CHOOSE w \in rows : TRUE

Answer(o, a) ==
  /\ pc' = [pc EXCEPT ![o] = "answered"]
  /\ answer' = [answer EXCEPT ![o] = a]
  /\ UNCHANGED request

(***************************************************************************)
(* Steps.                                                                   *)
(***************************************************************************)
ReceiveOpening(o, r) ==
  /\ pc[o] \in {"idle", "answered"}
  /\ pc' = [pc EXCEPT ![o] = "lookup"]
  /\ request' = [request EXCEPT ![o] = r]
  /\ answer' = [answer EXCEPT ![o] = NoOpening]
  /\ UNCHANGED tables

\* The lookup is by the currency as spelt; NewWallet compares it with the one that
\* Parse gave the balance.
LookupWallet(o) ==
  LET r == request[o]
      w == FindByPlayerAndCurrency(r)
  IN  /\ pc[o] = "lookup"
      /\ \/ w # NoWallet /\ Answer(o, Opened(w, FALSE))
         \/ w = NoWallet /\ Upper[r.currency] # r.currency /\ Answer(o, Refused("CURRENCY_MISMATCH"))
         \/ /\ w = NoWallet /\ Upper[r.currency] = r.currency
            /\ pc' = [pc EXCEPT ![o] = "insert"]
            /\ UNCHANGED <<request, answer>>
      /\ UNCHANGED tables

\* Mutant: no unique index on (player_id, currency).
NoUniqueKey(o) == FALSE
\* The unique index (player_id, currency) has the key already.
KeyTaken(o) == FindByPlayerAndCurrency(request[o]) # NoWallet

\* Another transaction has inserted the key and not ended: the INSERT waits.
KeyInDoubt(o) ==
  \E q \in Openers \ {o} : pc[q] = "inserted" /\ SameKey(request[q], request[o])

\* Mutant: the INSERT does nothing on a conflict, and nobody looks.
InsertOrNothing(o) ==
  /\ pc[o] = "insert" /\ ~KeyInDoubt(o)
  /\ \/ KeyTaken(o) /\ Answer(o, Opened(FindByPlayerAndCurrency(request[o]), TRUE))
     \/ /\ ~KeyTaken(o)
        /\ pc' = [pc EXCEPT ![o] = "inserted"]
        /\ UNCHANGED <<request, answer>>
  /\ UNCHANGED tables
\* The CHECK constraint on the balance, or the unique index, raises an error.
\* IsDuplicateKeyError looks for the error type of another driver and never finds
\* it, so it is not ErrWalletAlreadyExists.
InsertWallet(o) ==
  /\ pc[o] = "insert"
  /\ \/ Balance(request[o]) < 0 /\ Answer(o, Refused("CHECK_VIOLATION"))
     \/ /\ Balance(request[o]) >= 0 /\ ~KeyInDoubt(o) /\ KeyTaken(o)
        /\ Answer(o, Refused("DUPLICATE_KEY"))
     \/ /\ Balance(request[o]) >= 0 /\ ~KeyInDoubt(o) /\ ~KeyTaken(o)
        /\ pc' = [pc EXCEPT ![o] = "inserted"]
        /\ UNCHANGED <<request, answer>>
  /\ UNCHANGED tables

\* Mutant: the OPENING of an empty wallet is not left out.
EntryAnyway(balance) == <<LedgerEntry(OpeningTx, "CREDIT", balance, 0)>>
\* The first entry, generated by crediting an empty copy of the wallet.
OpeningEntry(balance) ==
  IF balance = 0 THEN <<>> ELSE <<LedgerEntry(OpeningTx, "CREDIT", balance, 0)>>
OpeningEvents(balance) ==
  IF balance = 0 THEN <<>>
  ELSE <<[type |-> "Processed", version |-> 0, after |-> balance],
         [type |-> "BalanceChanged", version |-> 1, after |-> balance]>>

CommitOpening(o) ==
  LET r == request[o]
  IN  /\ pc[o] = "inserted"
      /\ wallets' = Append(wallets, Row(r))
      /\ ledger' = Append(ledger, OpeningEntry(Balance(r)))
      /\ events' = Append(events, OpeningEvents(Balance(r)))
      /\ Answer(o, Opened(Len(wallets) + 1, TRUE))

\* A statement or COMMIT fails, the context ends, the instance stops, or the
\* answer is lost: an open transaction is rolled back.
FailOpening(o) ==
  /\ pc[o] # "idle"
  /\ pc' = [pc EXCEPT ![o] = "idle"]
  /\ request' = [request EXCEPT ![o] = NoOpening]
  /\ answer' = [answer EXCEPT ![o] = NoOpening]
  /\ UNCHANGED tables

\* ProcessWager commits a movement of a wallet: any that the books allow, as each of
\* its commits is one (ProcessWagerProperties!KeepsBooks).
SettleWager(w, direction, amount) ==
  /\ Len(ledger[w]) <= MaxSettled
  /\ Books!Move(w, Len(ledger[w]) + 1, direction, amount)
  /\ UNCHANGED <<events, openerVars>>

OpenInit ==
  /\ wallets = <<>> /\ ledger = <<>> /\ events = <<>>
  /\ pc = [o \in Openers |-> "idle"]
  /\ request = [o \in Openers |-> NoOpening]
  /\ answer = [o \in Openers |-> NoOpening]

OpenerStep(o) == LookupWallet(o) \/ InsertWallet(o) \/ CommitOpening(o)

OpenNext ==
  \/ \E o \in Openers :
       (\E r \in Openings : ReceiveOpening(o, r)) \/ OpenerStep(o) \/ FailOpening(o)
  \/ \E w \in DOMAIN wallets, d \in Directions, a \in Wagers : SettleWager(w, d, a)

OpenSpec == OpenInit /\ [][OpenNext]_openVars

(***************************************************************************)
(* Properties.                                                              *)
(***************************************************************************)
\* However openers race, a player has one wallet in a currency (the unique index
\* decides what the lookup, outside the transaction, cannot: open_wallet.go:65).
OneWalletPerPlayerAndCurrency ==
  \A v, w \in DOMAIN wallets :
    SameKey(wallets[v], wallets[w]) => v = w

\* A wallet and what explains its balance exist together: its ledger is a chain
\* from zero to the balance, starting with the OPENING unless it opened empty,
\* its version counts the movements after it, and an OPENING has its two events.
OpeningIsComplete ==
  /\ Len(ledger) = Len(wallets) /\ Len(events) = Len(wallets)
  /\ \A w \in DOMAIN wallets :
       LET L == ledger[w]
           n == Len(L)
           opened == n > 0 /\ L[1].tx = OpeningTx
       IN  /\ \A i \in 1..n : /\ L[i].before = IF i = 1 THEN 0 ELSE L[i-1].after
                              /\ L[i].after = Moved(L[i].before, L[i].direction, L[i].amount)
                              /\ L[i].amount > 0
           /\ wallets[w].balance = IF n = 0 THEN 0 ELSE L[n].after
           /\ wallets[w].version = 1 + n - IF opened THEN 1 ELSE 0
           /\ Len(events[w]) = IF opened THEN 2 ELSE 0
           /\ opened => events[w][2].after = L[1].after

\* Openings and wagers keep the books together: a wallet appears complete, and
\* nothing moves it but one whole movement at a time (doInsert, commitSuccess).
KeepsBooks == Books!Spec

\* Whoever is answered without an error is given the one committed wallet of the
\* player and currency it asked for, and at most one opener is told it created it.
AnswersNameTheWallet ==
  \A o \in Openers :
    LET a == answer[o]
    IN  pc[o] = "answered" /\ a.error = "none" =>
          /\ a.wallet \in DOMAIN wallets /\ SameKey(wallets[a.wallet], request[o])
          /\ \A q \in Openers \ {o} :
               pc[q] = "answered" /\ answer[q].wallet = a.wallet => ~(a.created /\ answer[q].created)

\* An opener that loses the race is answered with the winner's wallet
\* (open_wallet.go:114-117: "Tratamos isso retornando a carteira existente").
LosersAreAnswered ==
  \A o \in Openers : pc[o] = "answered" => answer[o].error # "DUPLICATE_KEY"
=============================================================================

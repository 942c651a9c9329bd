------------------------- MODULE WalletReadsProofs -------------------------
(***************************************************************************)
(* Wallets, however many openers, auditors and readers there are, over how-  *)
(* ever many players and currencies.  Openings: a player has one wallet in a *)
(* currency, with all that explains its balance, and whoever is answered     *)
(* without an error is answered with it.  Reads: a reconciliation is wrong   *)
(* only about what it missed, and pages miss nothing but late entries.       *)
(***************************************************************************)
EXTENDS WalletReads, RowLemmas

Phases == {"idle", "answered", "lookup", "insert", "inserted"}
Errors == {"none", "CURRENCY_MISMATCH", "CHECK_VIOLATION", "DUPLICATE_KEY"}
Answers == [wallet : Nat, created : BOOLEAN, error : Errors]
Players == {r.player : r \in Openings}
Currencies == {r.currency : r \in Openings}
WalletRows == [player : Players, currency : Currencies, balance : Int, version : Nat]
EntryRows == [tx : Nat, direction : Directions, amount : Int, before : Int, after : Int]

(***************************************************************************)
(* Types.                                                                   *)
(***************************************************************************)
\* Tables keep their column types.
TablesOK ==
  /\ wallets \in Seq(WalletRows)
  /\ ledger \in Seq(Seq(EntryRows)) /\ Len(ledger) = Len(wallets)

\* An opener that is not idle has a request, one that has answered an answer.
OpenersOK ==
  /\ pc \in [Openers -> Phases]
  /\ request \in [Openers -> Openings \cup {NoOpening}]
  /\ answer \in [Openers -> Answers \cup {NoOpening}]
  /\ \A o \in Openers :
       /\ pc[o] # "idle" => request[o] \in Openings
       /\ pc[o] = "answered" => answer[o] \in Answers

\* The balance that Parse gives a request is an int64.
LEMMA BalanceIsInt64 ==
  ASSUME NEW r \in Openings
  PROVE  Balance(r) \in Int64
<1>1. r.balance \in Decimal
  BY OpeningsAssumption
<1>2. /\ 2 * (MaxInt + 1) \in Nat \ {0} /\ Cents(r.balance) - MinInt \in Int
      /\ MinInt \in Int /\ MinInt + 2 * (MaxInt + 1) - 1 = MaxInt
  BY <1>1, MaxIntAssumption DEF MinInt, Cents, Decimal
<1>3. ASSUME NEW n \in Int, NEW w \in Nat \ {0} PROVE n % w \in 0..(w - 1)
  BY <1>3
<1>4. (Cents(r.balance) - MinInt) % (2 * (MaxInt + 1)) \in 0..(2 * (MaxInt + 1) - 1)
  BY <1>2, <1>3
<1> QED
  BY <1>2, <1>4, MaxIntAssumption DEF Balance, Parsed, Wrap, Int64

LEMMA LookupFinds ==
  ASSUME TablesOK, NEW r, FindByPlayerAndCurrency(r) # NoWallet
  PROVE  /\ FindByPlayerAndCurrency(r) \in DOMAIN wallets
         /\ SameKey(wallets[FindByPlayerAndCurrency(r)], r)
  BY DEF FindByPlayerAndCurrency, NoWallet

LEMMA LookupMisses ==
  ASSUME TablesOK, NEW r, FindByPlayerAndCurrency(r) = NoWallet
  PROVE  \A w \in DOMAIN wallets : ~SameKey(wallets[w], r)
<1>1. SUFFICES ASSUME NEW v \in DOMAIN wallets, SameKey(wallets[v], r) PROVE FALSE
  OBVIOUS
<1>2. FindByPlayerAndCurrency(r) \in {w \in DOMAIN wallets : SameKey(wallets[w], r)}
  BY <1>1 DEF FindByPlayerAndCurrency
<1> QED  BY <1>2 DEF NoWallet, TablesOK

\* A row moved to a balance.
Updated(row, balance) ==
  [player |-> row.player, currency |-> row.currency,
   balance |-> balance, version |-> row.version + 1]

\* What a wager leaves: the moved row, and the entry after the others.
LEMMA SettleShape ==
  ASSUME TablesOK, NEW w \in DOMAIN wallets, NEW d, NEW a, SettleWager(w, d, a)
  PROVE  LET e == LedgerEntry(Len(ledger[w]) + 1, d, a, wallets[w].balance)
         IN  /\ wallets' = [wallets EXCEPT ![w] = Updated(wallets[w], e.after)]
             /\ ledger' = [ledger EXCEPT ![w] = Append(ledger[w], e)]
             /\ UNCHANGED <<events, openerVars>>
<1>1. PICK e : e = LedgerEntry(Len(ledger[w]) + 1, d, a, wallets[w].balance)
  OBVIOUS
<1>2. Books!LedgerEntry(Len(ledger[w]) + 1, d, a, wallets[w].balance) = e
  BY <1>1 DEF Books!LedgerEntry, Books!Moved, LedgerEntry, Moved
<1>3. /\ wallets' = [wallets EXCEPT ![w].balance = e.after, ![w].version = @ + 1]
      /\ ledger' = [ledger EXCEPT ![w] = Append(@, e)]
      /\ UNCHANGED <<events, openerVars>>
  BY <1>2 DEF SettleWager, Books!Move
<1>4. PICK row \in WalletRows : row = wallets[w]
  BY DEF TablesOK
<1>5. PICK W : W = DOMAIN wallets /\ wallets \in [W -> WalletRows] /\ w \in W
  BY DEF TablesOK
<1>6. wallets' = [wallets EXCEPT ![w] = Updated(row, e.after)]
  <2>1. wallets' = [wallets EXCEPT ![w] = [[wallets[w] EXCEPT !.balance = e.after]
                                                 EXCEPT !.version = wallets[w].version + 1]]
    BY <1>3, <1>5
  <2>2. [[row EXCEPT !.balance = e.after] EXCEPT !.version = row.version + 1]
          = Updated(row, e.after)
    <3>1. PICK b, n : b = e.after /\ n = row.version + 1
      OBVIOUS
    <3>2. PICK mid : mid = [row EXCEPT !.balance = b]
      OBVIOUS
    <3>3. mid = [player |-> row.player, currency |-> row.currency, balance |-> b,
                 version |-> row.version]
      BY <1>4, <3>2 DEF WalletRows
    <3>4. [mid EXCEPT !.version = n] = Updated(row, b)
      BY <3>1, <3>3 DEF Updated
    <3> QED  BY <3>1, <3>2, <3>4
  <2> QED  BY <1>4, <2>1, <2>2
<1> QED  BY <1>1, <1>3, <1>4, <1>6

LEMMA StepTables ==
  ASSUME TablesOK, OpenersOK, [OpenNext]_openVars
  PROVE  TablesOK'
<1>1. ASSUME NEW o \in Openers, CommitOpening(o) PROVE TablesOK'
  <2> DEFINE r == request[o]
  <2>1. r \in Openings
    BY <1>1 DEF CommitOpening, OpenersOK
  <2>2. Balance(r) \in Int
    BY <2>1, BalanceIsInt64, MaxIntAssumption DEF Int64, MinInt
  <2>3. Row(r) \in WalletRows
    BY <2>1, <2>2 DEF Row, WalletRows, Players, Currencies
  <2>4. OpeningEntry(Balance(r)) \in Seq(EntryRows)
    <3>1. LedgerEntry(OpeningTx, "CREDIT", Balance(r), 0) \in EntryRows
      BY <2>2 DEF LedgerEntry, Moved, EntryRows, Directions, OpeningTx
    <3>2. <<LedgerEntry(OpeningTx, "CREDIT", Balance(r), 0)>> \in Seq(EntryRows)
      BY <3>1
    <3> QED  BY <3>2 DEF OpeningEntry
  <2>5. wallets' = Append(wallets, Row(r)) /\ ledger' = Append(ledger, OpeningEntry(Balance(r)))
    BY <1>1 DEF CommitOpening
  <2> QED  BY <2>3, <2>4, <2>5 DEF TablesOK
<1>2. ASSUME NEW w \in DOMAIN wallets, NEW d \in Directions, NEW a \in Wagers,
             SettleWager(w, d, a)
      PROVE  TablesOK'
  <2> DEFINE e == LedgerEntry(Len(ledger[w]) + 1, d, a, wallets[w].balance)
  <2>1. wallets[w] \in WalletRows /\ w \in DOMAIN ledger /\ ledger[w] \in Seq(EntryRows)
    BY DEF TablesOK
  <2>2. a \in Int
    BY WagersAssumption, MaxIntAssumption
  <2>3. e \in EntryRows /\ e.after \in Int
    BY <2>1, <2>2 DEF LedgerEntry, Moved, EntryRows, WalletRows
  <2>4. /\ wallets' = [wallets EXCEPT ![w] = Updated(@, e.after)]
        /\ ledger' = [ledger EXCEPT ![w] = Append(@, e)]
    BY <1>2, SettleShape
  <2> DEFINE row == Updated(wallets[w], e.after)
  <2>5. row \in WalletRows
    BY <2>1, <2>3 DEF Updated, WalletRows
  <2>6. wallets' = [wallets EXCEPT ![w] = row]
    BY <2>4
  <2>7. Append(ledger[w], e) \in Seq(EntryRows)
    BY <2>1, <2>3
  <2>8. ledger' = [ledger EXCEPT ![w] = Append(ledger[w], e)]
    BY <2>4
  <2> HIDE DEF row, e
  <2>9. wallets' \in Seq(WalletRows) /\ Len(wallets') = Len(wallets)
    BY <2>5, <2>6, ExceptSeq DEF TablesOK
  <2>10. ledger' \in Seq(Seq(EntryRows)) /\ Len(ledger') = Len(ledger)
    BY <2>7, <2>8, ExceptSeq DEF TablesOK
  <2> QED  BY <2>9, <2>10 DEF TablesOK
<1>3. ASSUME NEW o \in Openers,
             \/ \E r \in Openings : ReceiveOpening(o, r)
             \/ LookupWallet(o) \/ InsertWallet(o) \/ FailOpening(o)
      PROVE  UNCHANGED tables
  BY <1>3 DEF ReceiveOpening, LookupWallet, InsertWallet, FailOpening
<1>4. ASSUME UNCHANGED tables PROVE TablesOK'
  BY <1>4 DEF tables, TablesOK
<1> QED
  BY <1>1, <1>2, <1>3, <1>4 DEF OpenNext, OpenerStep, openVars

\* The openers: one moves, the others stay.
LEMMA StepOpeners ==
  ASSUME TablesOK, OpenersOK, [OpenNext]_openVars
  PROVE  OpenersOK'
<1>1. ASSUME NEW o \in Openers, NEW a \in Answers, pc[o] # "idle", Answer(o, a)
      PROVE  OpenersOK'
  BY <1>1 DEF Answer, OpenersOK, Phases
<1>2. ASSUME NEW o \in Openers, NEW ph \in Phases, ph # "answered", pc[o] # "idle",
             pc' = [pc EXCEPT ![o] = ph], UNCHANGED <<request, answer>>
      PROVE  OpenersOK'
  BY <1>2 DEF OpenersOK
<1>3. ASSUME NEW o \in Openers, NEW r \in Openings, ReceiveOpening(o, r) PROVE OpenersOK'
  BY <1>3 DEF ReceiveOpening, OpenersOK, Phases
<1>4. ASSUME NEW o \in Openers, FailOpening(o) PROVE OpenersOK'
  BY <1>4 DEF FailOpening, OpenersOK, Phases
<1>5. \A e \in Errors : Refused(e) \in Answers
  BY DEF Refused, Answers, NoWallet
<1>6. \A w \in Nat, c \in BOOLEAN : Opened(w, c) \in Answers
  BY DEF Opened, Answers, Errors
<1>7. ASSUME NEW o \in Openers, LookupWallet(o) PROVE OpenersOK'
  <2>1. FindByPlayerAndCurrency(request[o]) \in Nat
    BY LookupFinds DEF TablesOK, NoWallet
  <2>2. pc[o] = "lookup"
    BY <1>7 DEF LookupWallet
  <2> QED  BY <1>1, <1>2, <1>5, <1>6, <1>7, <2>1, <2>2 DEF LookupWallet, Errors, Phases
<1>8. ASSUME NEW o \in Openers, InsertWallet(o) PROVE OpenersOK'
  BY <1>1, <1>2, <1>5, <1>8 DEF InsertWallet, Errors, Phases
<1>9. ASSUME NEW o \in Openers, CommitOpening(o) PROVE OpenersOK'
  <2>1. Len(wallets) + 1 \in Nat
    BY DEF TablesOK
  <2> QED  BY <1>1, <1>6, <1>9, <2>1 DEF CommitOpening
<1>10. ASSUME UNCHANGED openerVars PROVE OpenersOK'
  BY <1>10 DEF openerVars, OpenersOK
<1>11. ASSUME NEW w \in DOMAIN wallets, NEW d \in Directions, NEW a \in Wagers,
              SettleWager(w, d, a)
       PROVE  UNCHANGED openerVars
  BY <1>11, SettleShape
<1> QED
  BY <1>3, <1>4, <1>7, <1>8, <1>9, <1>10, <1>11 DEF OpenNext, OpenerStep, openVars

(***************************************************************************)
(* One wallet.                                                              *)
(***************************************************************************)
\* The unique index: committed rows, and rows that are not committed yet.
KeyInv ==
  /\ OneWalletPerPlayerAndCurrency
  /\ \A o \in Openers : pc[o] = "inserted" =>
       \A w \in DOMAIN wallets : ~SameKey(wallets[w], request[o])
  /\ \A o, q \in Openers :
       pc[o] = "inserted" /\ pc[q] = "inserted" /\ SameKey(request[o], request[q]) => o = q

\* Whoever has an answer without an error has the wallet it asked for; two that
\* created one have different ones.
AnswerInv ==
  /\ \A o \in Openers : pc[o] = "answered" =>
       /\ answer[o].error = "none" =>
            answer[o].wallet \in DOMAIN wallets /\ SameKey(wallets[answer[o].wallet], request[o])
       /\ answer[o].error # "none" => ~answer[o].created
  /\ \A o, q \in Openers :
       /\ pc[o] = "answered" /\ pc[q] = "answered"
       /\ answer[o].created /\ answer[q].created
       /\ answer[o].wallet = answer[q].wallet
       => o = q

\* A step of one opener after which it has nothing inserted, and no new wallet.
LEMMA QuietKeyInv ==
  ASSUME KeyInv, NEW o \in Openers, pc'[o] # "inserted", UNCHANGED tables,
         \A q \in Openers \ {o} : pc'[q] = pc[q] /\ request'[q] = request[q]
  PROVE  KeyInv'
BY DEF KeyInv, tables, OneWalletPerPlayerAndCurrency, SameKey

\* A row never changes its key.
LEMMA SettleKeepsKeys ==
  ASSUME TablesOK, NEW w \in DOMAIN wallets, NEW d, NEW a, SettleWager(w, d, a)
  PROVE  /\ DOMAIN wallets' = DOMAIN wallets /\ UNCHANGED openerVars
         /\ \A v \in DOMAIN wallets : /\ wallets'[v].player = wallets[v].player
                                      /\ wallets'[v].currency = wallets[v].currency
<1> DEFINE b == LedgerEntry(Len(ledger[w]) + 1, d, a, wallets[w].balance).after
<1>1. wallets' = [wallets EXCEPT ![w] = Updated(wallets[w], b)] /\ UNCHANGED openerVars
  BY SettleShape
<1> HIDE DEF b
<1>2. DOMAIN wallets' = DOMAIN wallets
  BY <1>1 DEF TablesOK
<1>3. ASSUME NEW v \in DOMAIN wallets
      PROVE  wallets'[v].player = wallets[v].player /\ wallets'[v].currency = wallets[v].currency
  <2>1. wallets'[v] = IF v = w THEN Updated(wallets[w], b) ELSE wallets[v]
    BY <1>1 DEF TablesOK
  <2> QED  BY <2>1 DEF Updated
<1> QED  BY <1>1, <1>2, <1>3

LEMMA StepKeyInv ==
  ASSUME TablesOK, OpenersOK, KeyInv, [OpenNext]_openVars
  PROVE  KeyInv'
<1>1. ASSUME NEW o \in Openers,
             \/ \E r \in Openings : ReceiveOpening(o, r)
             \/ LookupWallet(o) \/ FailOpening(o)
      PROVE  KeyInv'
  BY <1>1, QuietKeyInv
     DEF ReceiveOpening, LookupWallet, FailOpening, Answer, OpenersOK, Phases
<1>2. ASSUME NEW o \in Openers, InsertWallet(o) PROVE KeyInv'
  <2>1. CASE \E e : Answer(o, Refused(e))
    BY <1>2, <2>1, QuietKeyInv DEF InsertWallet, Answer, OpenersOK
  <2>2. CASE /\ ~KeyInDoubt(o) /\ ~KeyTaken(o)
             /\ pc' = [pc EXCEPT ![o] = "inserted"] /\ UNCHANGED <<request, answer>>
    <3>1. \A w \in DOMAIN wallets : ~SameKey(wallets[w], request[o])
      BY <2>2, LookupMisses DEF KeyTaken
    <3>2. \A q \in Openers \ {o} : pc[q] = "inserted" => ~SameKey(request[q], request[o])
      BY <2>2 DEF KeyInDoubt
    <3>3. UNCHANGED <<wallets, request>> /\ pc' = [pc EXCEPT ![o] = "inserted"]
      BY <1>2, <2>2 DEF InsertWallet, tables
    <3> QED  BY <3>1, <3>2, <3>3 DEF KeyInv, OneWalletPerPlayerAndCurrency, SameKey, OpenersOK
  <2> QED  BY <1>2, <2>1, <2>2 DEF InsertWallet
<1>3. ASSUME NEW o \in Openers, CommitOpening(o) PROVE KeyInv'
  <2>1. /\ pc[o] = "inserted" /\ wallets' = Append(wallets, Row(request[o]))
        /\ pc' = [pc EXCEPT ![o] = "answered"] /\ request' = request
    BY <1>3 DEF CommitOpening, Answer
  <2>2. /\ DOMAIN wallets' = DOMAIN wallets \cup {Len(wallets) + 1}
        /\ Len(wallets) + 1 \notin DOMAIN wallets
        /\ \A w \in DOMAIN wallets : wallets'[w] = wallets[w]
        /\ wallets'[Len(wallets) + 1] = Row(request[o])
    BY <2>1 DEF TablesOK
  <2>3. Row(request[o]).player = request[o].player /\ Row(request[o]).currency = request[o].currency
    BY DEF Row
  <2> HIDE DEF Row
  <2>4. \A q \in Openers : pc'[q] = "inserted" => q # o /\ pc[q] = "inserted"
    BY <2>1 DEF OpenersOK
  <2>5. OneWalletPerPlayerAndCurrency'
    BY <2>1, <2>2, <2>3 DEF KeyInv, OneWalletPerPlayerAndCurrency, SameKey
  <2>6. ASSUME NEW q \in Openers, pc'[q] = "inserted", NEW w \in DOMAIN wallets'
        PROVE  ~SameKey(wallets'[w], request'[q])
    BY <2>1, <2>2, <2>3, <2>4, <2>6 DEF KeyInv, SameKey
  <2> QED  BY <2>1, <2>4, <2>5, <2>6 DEF KeyInv
<1>4. ASSUME NEW w \in DOMAIN wallets, NEW d \in Directions, NEW a \in Wagers,
             SettleWager(w, d, a)
      PROVE  KeyInv'
  BY <1>4, SettleKeepsKeys DEF KeyInv, OneWalletPerPlayerAndCurrency, SameKey, openerVars
<1>5. CASE UNCHANGED openVars
  BY <1>5 DEF openVars, openerVars, tables, KeyInv, OneWalletPerPlayerAndCurrency, SameKey
<1> QED  BY <1>1, <1>2, <1>3, <1>4, <1>5 DEF OpenNext, OpenerStep

LEMMA StepAnswerInv ==
  ASSUME TablesOK, OpenersOK, KeyInv, AnswerInv, [OpenNext]_openVars
  PROVE  AnswerInv'
<1>1. ASSUME NEW o \in Openers, pc'[o] # "answered", UNCHANGED tables,
             \A q \in Openers \ {o} :
               pc'[q] = pc[q] /\ request'[q] = request[q] /\ answer'[q] = answer[q]
      PROVE  AnswerInv'
  BY <1>1 DEF AnswerInv, tables, SameKey
<1>2. ASSUME NEW o \in Openers, NEW a, Answer(o, a), UNCHANGED tables, ~a.created,
             a.error = "none" => /\ a.wallet \in DOMAIN wallets
                                 /\ SameKey(wallets[a.wallet], request[o])
      PROVE  AnswerInv'
  BY <1>2 DEF Answer, AnswerInv, OpenersOK, tables, SameKey
<1>3. ASSUME NEW o \in Openers,
             (\E r \in Openings : ReceiveOpening(o, r)) \/ FailOpening(o)
      PROVE  AnswerInv'
  BY <1>1, <1>3 DEF ReceiveOpening, FailOpening, OpenersOK
<1>4. ASSUME NEW o \in Openers, NEW e \in Errors, e # "none", Answer(o, Refused(e)), UNCHANGED tables
      PROVE  AnswerInv'
  <2>1. ~Refused(e).created /\ Refused(e).error # "none"
    BY <1>4 DEF Refused
  <2> QED  BY <1>2, <1>4, <2>1
<1>5. ASSUME NEW o \in Openers, LookupWallet(o) PROVE AnswerInv'
  <2> DEFINE w == FindByPlayerAndCurrency(request[o])
  <2>1. CASE w # NoWallet /\ Answer(o, Opened(w, FALSE))
    <3>1. w \in DOMAIN wallets /\ SameKey(wallets[w], request[o])
      BY <2>1, LookupFinds
    <3>2. Opened(w, FALSE).wallet = w /\ ~Opened(w, FALSE).created
      BY DEF Opened
    <3>3. UNCHANGED tables
      BY <1>5 DEF LookupWallet
    <3> QED  BY <1>2, <2>1, <3>1, <3>2, <3>3
  <2>2. CASE Answer(o, Refused("CURRENCY_MISMATCH"))
    BY <1>4, <1>5, <2>2 DEF LookupWallet, Errors
  <2>3. CASE pc' = [pc EXCEPT ![o] = "insert"] /\ UNCHANGED <<request, answer>>
    BY <1>1, <1>5, <2>3 DEF LookupWallet, OpenersOK
  <2> QED  BY <1>5, <2>1, <2>2, <2>3 DEF LookupWallet
<1>6. ASSUME NEW o \in Openers, InsertWallet(o) PROVE AnswerInv'
  <2>1. CASE Answer(o, Refused("CHECK_VIOLATION")) \/ Answer(o, Refused("DUPLICATE_KEY"))
    BY <1>4, <1>6, <2>1 DEF InsertWallet, Errors
  <2>2. CASE pc' = [pc EXCEPT ![o] = "inserted"] /\ UNCHANGED <<request, answer>>
    BY <1>1, <1>6, <2>2 DEF InsertWallet, OpenersOK
  <2> QED  BY <1>6, <2>1, <2>2 DEF InsertWallet
<1>7. ASSUME NEW o \in Openers, CommitOpening(o) PROVE AnswerInv'
  <2> DEFINE n == Len(wallets) + 1
  <2>1. /\ wallets' = Append(wallets, Row(request[o])) /\ request' = request
        /\ pc' = [pc EXCEPT ![o] = "answered"]
        /\ answer' = [answer EXCEPT ![o] = Opened(n, TRUE)]
    BY <1>7 DEF CommitOpening, Answer
  <2>2. /\ DOMAIN wallets' = DOMAIN wallets \cup {n} /\ n \notin DOMAIN wallets
        /\ \A w \in DOMAIN wallets : wallets'[w] = wallets[w]
        /\ wallets'[n] = Row(request[o])
    BY <2>1 DEF TablesOK
  <2>3. SameKey(Row(request[o]), request[o])
    BY DEF Row, SameKey
  <2>4. answer'[o].wallet = n /\ answer'[o].error = "none" /\ answer'[o].created
    BY <2>1 DEF OpenersOK, Opened
  <2>5. \A q \in Openers \ {o} : pc'[q] = pc[q] /\ answer'[q] = answer[q]
    BY <2>1 DEF OpenersOK
  <2>6. \A q \in Openers \ {o} : pc[q] = "answered" /\ answer[q].created => answer[q].wallet # n
    BY <2>2 DEF AnswerInv
  <2> HIDE DEF n, SameKey
  <2>7. ASSUME NEW q \in Openers, pc'[q] = "answered", answer'[q].error = "none"
        PROVE  /\ answer'[q].wallet \in DOMAIN wallets'
               /\ SameKey(wallets'[answer'[q].wallet], request'[q])
    <3>1. CASE q = o
      BY <2>1, <2>2, <2>3, <2>4, <3>1
    <3>2. CASE q # o
      <4>1. answer[q].wallet \in DOMAIN wallets /\ SameKey(wallets[answer[q].wallet], request[q])
        BY <2>5, <2>7, <3>2 DEF AnswerInv
      <4> QED  BY <2>1, <2>2, <2>5, <3>2, <4>1
    <3> QED  BY <3>1, <3>2
  <2>8. ASSUME NEW q \in Openers, pc'[q] = "answered", answer'[q].error # "none"
        PROVE  ~answer'[q].created
    BY <2>4, <2>5, <2>8 DEF AnswerInv
  <2>9. ASSUME NEW p \in Openers, NEW q \in Openers, pc'[p] = "answered", pc'[q] = "answered",
               answer'[p].created, answer'[q].created, answer'[p].wallet = answer'[q].wallet
        PROVE  p = q
    BY <2>4, <2>5, <2>6, <2>9 DEF AnswerInv
  <2> QED  BY <2>7, <2>8, <2>9 DEF AnswerInv, SameKey
<1>8. ASSUME NEW w \in DOMAIN wallets, NEW d \in Directions, NEW a \in Wagers,
             SettleWager(w, d, a)
      PROVE  AnswerInv'
  BY <1>8, SettleKeepsKeys DEF AnswerInv, SameKey, openerVars
<1>9. CASE UNCHANGED openVars
  BY <1>9 DEF openVars, openerVars, tables, AnswerInv, SameKey
<1> QED  BY <1>3, <1>5, <1>6, <1>7, <1>8, <1>9 DEF OpenNext, OpenerStep

(***************************************************************************)
(* What explains a balance.                                                 *)
(***************************************************************************)
\* A row of wallets, its ledger and the events of its opening belong together.
Complete(row, L, E) ==
  LET n == Len(L)
      opened == n > 0 /\ L[1].tx = OpeningTx
  IN  /\ \A i \in 1..n : /\ L[i].before = IF i = 1 THEN 0 ELSE L[i-1].after
                         /\ L[i].after = Moved(L[i].before, L[i].direction, L[i].amount)
                         /\ L[i].amount > 0
      /\ row.balance = IF n = 0 THEN 0 ELSE L[n].after
      /\ row.version = 1 + n - IF opened THEN 1 ELSE 0
      /\ Len(E) = IF opened THEN 2 ELSE 0
      /\ opened => E[2].after = L[1].after

OpeningEventRows ==
  [type : {"Processed", "BalanceChanged"}, version : Nat, after : Int]

\* The CHECK constraint has let a row in before its transaction goes on.
CompleteInv ==
  /\ events \in Seq(Seq(OpeningEventRows)) /\ Len(events) = Len(wallets)
  /\ \A w \in DOMAIN wallets : Complete(wallets[w], ledger[w], events[w])
  /\ \A o \in Openers : pc[o] = "inserted" => Balance(request[o]) >= 0

\* The opening of a wallet makes all of it.
LEMMA CompleteAtFirst ==
  ASSUME NEW r \in Openings, Balance(r) >= 0
  PROVE  /\ Complete(Row(r), OpeningEntry(Balance(r)), OpeningEvents(Balance(r)))
         /\ OpeningEvents(Balance(r)) \in Seq(OpeningEventRows)
<1>1. PICK b \in Int : b = Balance(r) /\ b >= 0
  BY BalanceIsInt64, MaxIntAssumption DEF Int64, MinInt
<1>2. Row(r).balance = b /\ Row(r).version = 1
  BY <1>1 DEF Row
<1> HIDE DEF Row
<1>3. CASE b = 0
  <2>1. OpeningEntry(b) = <<>> /\ OpeningEvents(b) = <<>>
    BY <1>3 DEF OpeningEntry, OpeningEvents
  <2>2. <<>> \in Seq(OpeningEventRows)
    OBVIOUS
  <2>3. PICK none : none = <<>> /\ Len(none) = 0 /\ none \in Seq(OpeningEventRows)
    BY <2>2
  <2>4. Complete(Row(r), none, none)
    BY <1>2, <1>3, <2>3 DEF Complete
  <2> QED  BY <1>1, <2>1, <2>3, <2>4
<1>4. CASE b # 0
  <2>1. PICK e : e = LedgerEntry(OpeningTx, "CREDIT", b, 0)
    OBVIOUS
  <2>2. /\ e.tx = OpeningTx /\ e.direction = "CREDIT" /\ e.amount = b /\ e.before = 0
        /\ e.after = b /\ Moved(e.before, e.direction, e.amount) = b
    BY <1>1, <2>1 DEF LedgerEntry, Moved
  <2>3. PICK d, f : /\ d = [type |-> "Processed", version |-> 0, after |-> b]
                    /\ f = [type |-> "BalanceChanged", version |-> 1, after |-> b]
    OBVIOUS
  <2>4. d \in OpeningEventRows /\ f \in OpeningEventRows /\ f.after = b
    BY <1>1, <2>3 DEF OpeningEventRows
  <2>5. OpeningEntry(b) = <<e>> /\ OpeningEvents(b) = <<d, f>>
    BY <1>4, <2>1, <2>3 DEF OpeningEntry, OpeningEvents
  <2>6. <<d, f>> \in Seq(OpeningEventRows) /\ Len(<<d, f>>) = 2 /\ <<d, f>>[2] = f
    BY <2>4
  <2>7. Len(<<e>>) = 1 /\ <<e>>[1] = e
    OBVIOUS
  <2>8. Complete(Row(r), <<e>>, <<d, f>>)
    BY <1>1, <1>2, <1>4, <2>2, <2>4, <2>6, <2>7 DEF Complete
  <2> QED  BY <1>1, <2>5, <2>6, <2>8
<1> QED  BY <1>3, <1>4

\* The entry of a wager continues the chain.
LEMMA CompleteAfterWager ==
  ASSUME NEW row \in WalletRows, NEW L \in Seq(EntryRows), NEW E, Complete(row, L, E),
         NEW d \in Directions, NEW a \in Int, a > 0,
         NEW e, e = LedgerEntry(Len(L) + 1, d, a, row.balance)
  PROVE  Complete(Updated(row, e.after), Append(L, e), E)
<1>1. PICK n \in Nat : n = Len(L)
  OBVIOUS
<1>2. PICK M : M = Append(L, e)
  OBVIOUS
<1>3. Len(M) = n + 1 /\ M[n+1] = e /\ \A i \in 1..n : M[i] = L[i]
  BY <1>1, <1>2, AppendProperties
<1>4. /\ e.tx = n + 1 /\ e.direction = d /\ e.amount = a /\ e.before = row.balance
      /\ e.after = Moved(e.before, e.direction, e.amount)
  BY <1>1 DEF LedgerEntry
<1>5. PICK opened \in BOOLEAN : opened = (n > 0 /\ L[1].tx = OpeningTx)
  OBVIOUS
<1>6. /\ \A i \in 1..n : /\ L[i].before = IF i = 1 THEN 0 ELSE L[i-1].after
                         /\ L[i].after = Moved(L[i].before, L[i].direction, L[i].amount)
                         /\ L[i].amount > 0
      /\ row.balance = IF n = 0 THEN 0 ELSE L[n].after
      /\ row.version = 1 + n - IF opened THEN 1 ELSE 0
      /\ Len(E) = IF opened THEN 2 ELSE 0
      /\ opened => E[2].after = L[1].after
  BY <1>1, <1>5 DEF Complete
<1>7. PICK new : new = Updated(row, e.after)
  OBVIOUS
<1>8. new.balance = e.after /\ new.version = row.version + 1
  BY <1>7 DEF Updated
<1>9. (n + 1 > 0 /\ M[1].tx = OpeningTx) = opened
  BY <1>3, <1>4, <1>5 DEF OpeningTx
<1>10. opened => M[1] = L[1]
  <2>1. n > 0 => M[1] = L[1]
    BY <1>3
  <2>2. opened => n > 0
    BY <1>5
  <2> QED  BY <2>1, <2>2
<1>11. ASSUME NEW i \in 1..(n+1)
       PROVE  /\ M[i].before = IF i = 1 THEN 0 ELSE M[i-1].after
              /\ M[i].after = Moved(M[i].before, M[i].direction, M[i].amount)
              /\ M[i].amount > 0
  <2>1. CASE i \in 1..n
    <3>1. M[i] = L[i] /\ (i # 1 => M[i-1] = L[i-1])
      BY <1>3, <2>1
    <3> QED  BY <1>6, <2>1, <3>1
  <2>2. CASE i = n + 1
    <3>1. M[i] = e /\ i - 1 = n /\ (i # 1 => M[i-1] = L[n])
      BY <1>3, <2>2
    <3>2. i = 1 <=> n = 0
      BY <2>2
    <3> QED  BY <1>4, <1>6, <3>1, <3>2
  <2> QED  BY <2>1, <2>2
<1>12. new.balance = M[n+1].after /\ n + 1 # 0
  BY <1>3, <1>8
<1>13. new.version = 1 + (n + 1) - IF opened THEN 1 ELSE 0
  BY <1>6, <1>8
<1>14. Complete(new, M, E)
  BY <1>3, <1>6, <1>9, <1>10, <1>11, <1>12, <1>13 DEF Complete
<1> QED  BY <1>2, <1>7, <1>14

LEMMA StepCompleteInv ==
  ASSUME TablesOK, OpenersOK, CompleteInv, [OpenNext]_openVars
  PROVE  CompleteInv'
<1>1. ASSUME NEW o \in Openers, pc'[o] # "inserted" \/ Balance(request[o]) >= 0,
             request'[o] = request[o] \/ pc'[o] # "inserted", UNCHANGED tables,
             \A q \in Openers \ {o} : pc'[q] = pc[q] /\ request'[q] = request[q]
      PROVE  CompleteInv'
  <2>1. \A q \in Openers : pc'[q] = "inserted" => Balance(request'[q]) >= 0
    BY <1>1 DEF CompleteInv
  <2> QED  BY <1>1, <2>1 DEF CompleteInv, tables
<1>2. ASSUME NEW o \in Openers,
             (\E r \in Openings : ReceiveOpening(o, r)) \/ LookupWallet(o) \/ FailOpening(o)
      PROVE  CompleteInv'
  BY <1>1, <1>2 DEF ReceiveOpening, LookupWallet, FailOpening, Answer, OpenersOK
<1>3. ASSUME NEW o \in Openers, InsertWallet(o) PROVE CompleteInv'
  BY <1>1, <1>3 DEF InsertWallet, Answer, OpenersOK
<1>4. ASSUME NEW o \in Openers, CommitOpening(o) PROVE CompleteInv'
  <2>1. PICK r \in Openings : r = request[o] /\ Balance(r) >= 0
    BY <1>4 DEF CommitOpening, OpenersOK, CompleteInv
  <2>2. PICK row, L, E : /\ row = Row(r) /\ L = OpeningEntry(Balance(r))
                         /\ E = OpeningEvents(Balance(r))
    OBVIOUS
  <2>3. /\ wallets' = Append(wallets, row) /\ ledger' = Append(ledger, L)
        /\ events' = Append(events, E)
        /\ pc' = [pc EXCEPT ![o] = "answered"] /\ request' = request
    BY <1>4, <2>1, <2>2 DEF CommitOpening, Answer
  <2>4. Complete(row, L, E) /\ E \in Seq(OpeningEventRows)
    BY <2>1, <2>2, CompleteAtFirst
  <2>5. PICK n \in Nat : n = Len(wallets) /\ n = Len(ledger) /\ n = Len(events)
    BY DEF TablesOK, CompleteInv
  <2>6. /\ DOMAIN wallets = 1..n /\ DOMAIN wallets' = 1..(n+1)
        /\ Len(wallets') = n + 1 /\ Len(events') = n + 1
        /\ \A w \in 1..n : /\ wallets'[w] = wallets[w] /\ ledger'[w] = ledger[w]
                           /\ events'[w] = events[w]
        /\ wallets'[n+1] = row /\ ledger'[n+1] = L /\ events'[n+1] = E
    BY <2>3, <2>5 DEF TablesOK, CompleteInv
  <2>7. events' \in Seq(Seq(OpeningEventRows))
    BY <2>3, <2>4 DEF CompleteInv
  <2>8. \A w \in 1..(n+1) : w \in 1..n \/ w = n + 1
    OBVIOUS
  <2>9. \A w \in DOMAIN wallets' : Complete(wallets'[w], ledger'[w], events'[w])
    BY <2>4, <2>6, <2>8 DEF CompleteInv
  <2>10. \A q \in Openers : pc'[q] = "inserted" => pc[q] = "inserted" /\ request'[q] = request[q]
    BY <2>3 DEF OpenersOK
  <2> QED  BY <2>6, <2>7, <2>9, <2>10 DEF CompleteInv
<1>5. ASSUME NEW w \in DOMAIN wallets, NEW d \in Directions, NEW a \in Wagers,
             SettleWager(w, d, a)
      PROVE  CompleteInv'
  <2>1. PICK row \in WalletRows, L \in Seq(EntryRows) : row = wallets[w] /\ L = ledger[w]
    BY DEF TablesOK
  <2>2. PICK e : e = LedgerEntry(Len(L) + 1, d, a, row.balance)
    OBVIOUS
  <2>3. PICK new, M : new = Updated(row, e.after) /\ M = Append(L, e)
    OBVIOUS
  <2>4. /\ wallets' = [wallets EXCEPT ![w] = new] /\ ledger' = [ledger EXCEPT ![w] = M]
        /\ UNCHANGED <<events, openerVars>>
    BY <1>5, <2>1, <2>2, <2>3, SettleShape
  <2>5. a \in Int /\ a > 0
    BY WagersAssumption, MaxIntAssumption
  <2>6. Complete(row, L, events[w])
    BY <2>1 DEF CompleteInv
  <2>7. Complete(new, M, events[w])
    BY <2>2, <2>3, <2>5, <2>6, CompleteAfterWager
  <2>8. /\ DOMAIN wallets' = DOMAIN wallets /\ Len(wallets') = Len(wallets)
        /\ wallets'[w] = new /\ ledger'[w] = M
        /\ \A v \in DOMAIN wallets \ {w} : wallets'[v] = wallets[v] /\ ledger'[v] = ledger[v]
    BY <2>4 DEF TablesOK
  <2>9. \A v \in DOMAIN wallets' : Complete(wallets'[v], ledger'[v], events'[v])
    BY <2>4, <2>7, <2>8 DEF CompleteInv
  <2> QED  BY <2>4, <2>8, <2>9 DEF CompleteInv, openerVars
<1>6. CASE UNCHANGED openVars
  BY <1>6 DEF openVars, openerVars, tables, CompleteInv
<1> QED  BY <1>2, <1>3, <1>4, <1>5, <1>6 DEF OpenNext, OpenerStep

OpenInv == TablesOK /\ OpenersOK /\ KeyInv /\ AnswerInv /\ CompleteInv

LEMMA AlwaysOpenInv == OpenSpec => []OpenInv
<1>1. OpenInit => OpenInv
  BY DEF OpenInit, OpenInv, TablesOK, OpenersOK, KeyInv, AnswerInv, CompleteInv, Phases,
         OneWalletPerPlayerAndCurrency
<1>2. OpenInv /\ [OpenNext]_openVars => OpenInv'
  BY StepTables, StepOpeners, StepKeyInv, StepAnswerInv, StepCompleteInv DEF OpenInv
<1> QED  BY <1>1, <1>2, PTL DEF OpenSpec

\* However many openers race, a player has one wallet in a currency.
THEOREM AlwaysOneWallet == OpenSpec => []OneWalletPerPlayerAndCurrency
<1>1. OpenInv => OneWalletPerPlayerAndCurrency
  BY DEF OpenInv, KeyInv
<1> QED  BY <1>1, AlwaysOpenInv, PTL

\* Whoever is answered without an error is given the one wallet of the player and
\* currency it asked for, and one opener at most is told that it created it.
THEOREM AlwaysAnswersNameTheWallet == OpenSpec => []AnswersNameTheWallet
<1>1. OpenInv => AnswersNameTheWallet
  BY DEF OpenInv, AnswerInv, AnswersNameTheWallet
<1> QED  BY <1>1, AlwaysOpenInv, PTL

\* However openings and wagers interleave, a wallet and what explains its balance
\* exist together.
THEOREM AlwaysOpeningIsComplete == OpenSpec => []OpeningIsComplete
<1>1. OpenInv => OpeningIsComplete
  <2> SUFFICES ASSUME OpenInv PROVE OpeningIsComplete
    OBVIOUS
  <2>1. Len(ledger) = Len(wallets) /\ Len(events) = Len(wallets)
    BY DEF OpenInv, TablesOK, CompleteInv
  <2>2. \A w \in DOMAIN wallets : Complete(wallets[w], ledger[w], events[w])
    BY DEF OpenInv, CompleteInv
  <2> QED  BY <2>1, <2>2 DEF Complete, OpeningIsComplete
<1> QED  BY <1>1, AlwaysOpenInv, PTL

(***************************************************************************)
(* The books of openings and wagers together.                               *)
(***************************************************************************)
\* The commit of an opening is the opening of a wallet, whole.
LEMMA CommitOpens ==
  ASSUME OpenInv, NEW o \in Openers, CommitOpening(o)
  PROVE  Books!Next
<1> USE DEF OpenInv
<1> PICK r \in Openings : r = request[o]
  BY DEF CommitOpening, OpenersOK
<1>1. PICK row, L : r = request[o] /\ row = Row(r) /\ L = OpeningEntry(Balance(r))
  OBVIOUS
<1>2. wallets' = Append(wallets, row) /\ ledger' = Append(ledger, L) /\ pc[o] = "inserted"
  BY <1>1 DEF CommitOpening
<1>3. Balance(r) \in 0..MaxInt
  BY <1>1, <1>2, BalanceIsInt64, MaxIntAssumption DEF CompleteInv, Int64, MinInt
<1>4. Books!New(row, L)
  <2>1. PICK b \in 0..MaxInt : b = Balance(r)
    BY <1>3
  <2>2. row.balance = b /\ row.version = 1
    BY <1>1, <2>1 DEF Row
  <2>3. LedgerEntry(OpeningTx, "CREDIT", b, 0) = Books!LedgerEntry(Books!OpeningTx, "CREDIT", b, 0)
    BY DEF LedgerEntry, Moved, OpeningTx, Books!LedgerEntry, Books!Moved, Books!OpeningTx
  <2>4. L = Books!OpeningEntries(b)
    BY <1>1, <2>1, <2>3 DEF OpeningEntry, Books!OpeningEntries
  <2> QED  BY <2>1, <2>2, <2>4 DEF Books!New
<1>5. PICK n \in Nat : n = Len(wallets) /\ n = Len(ledger)
  BY DEF TablesOK
<1>6. /\ DOMAIN wallets = 1..n /\ DOMAIN wallets' = 1..(n+1) /\ DOMAIN ledger' = 1..(n+1)
      /\ DOMAIN ledger = 1..n
      /\ \A w \in 1..n : wallets'[w] = wallets[w] /\ ledger'[w] = ledger[w]
      /\ wallets'[n+1] = row /\ ledger'[n+1] = L
  BY <1>2, <1>5 DEF TablesOK
<1>7. 1..(n+1) = 1..n \cup {n+1} /\ n + 1 \notin 1..n /\ n + 1 \in 1..(n+1)
  BY <1>5
<1>8. Books!Open(n + 1)
  BY <1>4, <1>6, <1>7 DEF Books!Open
<1> QED  BY <1>6, <1>7, <1>8 DEF Books!Next

LEMMA SettleMoves ==
  ASSUME OpenInv, NEW w \in DOMAIN wallets, NEW d, NEW a, SettleWager(w, d, a)
  PROVE  Books!Next
<1> USE DEF OpenInv
<1>1. PICK e : e = LedgerEntry(Len(ledger[w]) + 1, d, a, wallets[w].balance)
  OBVIOUS
<1>2. e.tx = Len(ledger[w]) + 1 /\ e.direction = d /\ e.amount = a
  BY <1>1 DEF LedgerEntry
<1>3. Books!Move(w, e.tx, e.direction, e.amount)
  BY <1>2 DEF SettleWager
<1>4. ledger' = [ledger EXCEPT ![w] = Append(ledger[w], e)]
  BY <1>1, SettleShape
<1>5. PICK K \in Seq(EntryRows) : K = ledger[w]
  BY DEF TablesOK
<1>6. PICK k \in Nat : k = Len(K) + 1
  BY <1>5
<1>7. ledger'[w] = Append(K, e)
  BY <1>4, <1>5 DEF TablesOK
<1>8. k \in DOMAIN ledger'[w] /\ ledger'[w][k] = e
  BY <1>5, <1>6, <1>7
<1> QED  BY <1>3, <1>8 DEF Books!Next

\* However openings and wagers interleave, the wallets and their ledgers are kept as
\* module WalletBooks says: a wallet appears with the entry that explains it, and
\* moves by one movement the domain allows, with its entry.
THEOREM OpeningsKeepBooks == OpenSpec => KeepsBooks
<1>1. OpenInit => Books!Init
  BY DEF OpenInit, Books!Init
<1>2. OpenInv /\ [OpenNext]_openVars => [Books!Next]_(Books!books)
  <2> SUFFICES ASSUME OpenInv, [OpenNext]_openVars
               PROVE  Books!Next \/ UNCHANGED <<wallets, ledger>>
    BY DEF Books!books
  <2>1. ASSUME NEW o \in Openers,
               \/ \E r \in Openings : ReceiveOpening(o, r)
               \/ LookupWallet(o) \/ InsertWallet(o) \/ FailOpening(o)
        PROVE  UNCHANGED <<wallets, ledger>>
    BY <2>1 DEF ReceiveOpening, LookupWallet, InsertWallet, FailOpening, tables
  <2>2. CASE UNCHANGED openVars
    BY <2>2 DEF openVars, tables
  <2> QED  BY <2>1, <2>2, CommitOpens, SettleMoves DEF OpenNext, OpenerStep
<1> QED  BY <1>1, <1>2, AlwaysOpenInv, PTL DEF OpenSpec, KeepsBooks, Books!Spec

(***************************************************************************)
(* Reads change nothing.                                                    *)
(***************************************************************************)
\* Seen without its auditors and readers, a step of ReadsNext is one of OpenNext.
LEMMA ReadsStepOpens ==
  ASSUME [ReadsNext]_readVars
  PROVE  [OpenNext]_openVars
<1>1. ASSUME NEW o \in Openers,
             \/ \E r \in Openings : ReceiveOpening(o, r)
             \/ LookupWallet(o) \/ InsertWallet(o) \/ FailOpening(o) \/ CreateWallet(o)
      PROVE  OpenNext
  BY <1>1 DEF CreateWallet, OpenNext, OpenerStep
<1>2. ASSUME NEW w \in DOMAIN wallets, NEW d \in Directions, NEW a \in Wagers, NEW n,
             Settle(w, d, a, n)
      PROVE  OpenNext
  BY <1>2 DEF Settle, OpenNext
<1>3. ASSUME NEW a \in Auditors, (\E w : ReadBalance(a, w)) \/ ReadSums(a)
      PROVE  UNCHANGED openVars
  BY <1>3 DEF ReadBalance, ReadSums
<1>4. ASSUME NEW g \in Readers, (\E w : StartPaging(g, w)) \/ ReadPage(g)
      PROVE  UNCHANGED openVars
  BY <1>4 DEF StartPaging, ReadPage
<1>5. CASE UNCHANGED readVars
  BY <1>5 DEF readVars
<1> QED  BY <1>1, <1>2, <1>3, <1>4, <1>5 DEF ReadsNext

\* Reconciliation and paging leave the promises of openings and wagers alone:
\* whatever holds of OpenSpec holds of ReadsSpec.
THEOREM ReadsKeepOpenings == ReadsSpec => OpenSpec
<1>1. ReadsInit => OpenInit
  BY DEF ReadsInit
<1>2. [ReadsNext]_readVars => [OpenNext]_openVars
  BY ReadsStepOpens
<1> QED  BY <1>1, <1>2, PTL DEF ReadsSpec, OpenSpec

(***************************************************************************)
(* Reconciliation.                                                          *)
(***************************************************************************)
\* The sum of a ledger in one direction.
SumOf(L, direction) == Total([i \in DOMAIN L |-> Share(L[i], direction)])

\* The two sums of a ledger explain the balance.
SumsExplain(row, L) == row.balance = SumOf(L, "CREDIT") - SumOf(L, "DEBIT")
SumInv == \A w \in DOMAIN wallets : SumsExplain(wallets[w], ledger[w])

LEMMA SumOfNone ==
  ASSUME NEW L, L = <<>>, NEW d PROVE SumOf(L, d) = 0
<1>1. PICK s : s = [i \in DOMAIN L |-> Share(L[i], d)]
  OBVIOUS
<1>2. DOMAIN L = 1..0
  OBVIOUS
<1>3. s \in [1..0 -> Int]
  BY <1>1, <1>2
<1>4. s \in Seq(Int) /\ Len(s) = 0
  BY <1>3
<1> QED  BY <1>1, <1>4, TotalOfNone DEF SumOf

\* An entry adds its amount to the sum of its direction.
LEMMA SumOfMore ==
  ASSUME NEW L \in Seq(EntryRows), NEW e \in EntryRows, NEW d \in Directions
  PROVE  /\ SumOf(L, d) \in Int
         /\ SumOf(Append(L, e), d) = SumOf(L, d) + Share(e, d)
<1>1. PICK n \in Nat : n = Len(L) /\ DOMAIN L = 1..n
  OBVIOUS
<1>2. PICK M : M = Append(L, e)
  OBVIOUS
<1>3. /\ DOMAIN M = 1..(n+1) /\ M[n+1] = e /\ \A i \in 1..n : M[i] = L[i]
      /\ M \in Seq(EntryRows)
  BY <1>1, <1>2, AppendProperties
<1>4. /\ \A i \in 1..n : L[i] \in EntryRows
      /\ \A i \in 1..(n+1) : M[i] \in EntryRows
  BY <1>1, <1>3
<1>5. \A x \in EntryRows : Share(x, d) \in Int
  BY DEF Share, EntryRows
<1>6. PICK s, r : /\ s = [i \in DOMAIN L |-> Share(L[i], d)]
                  /\ r = [i \in DOMAIN M |-> Share(M[i], d)]
  OBVIOUS
<1>7. s \in [1..n -> Int] /\ r \in [1..(n+1) -> Int]
  BY <1>1, <1>3, <1>4, <1>5, <1>6
<1>8. s \in Seq(Int) /\ Len(s) = n /\ r \in Seq(Int) /\ Len(r) = n + 1
  BY <1>7
<1>9. r[n+1] = Share(e, d) /\ \A i \in 1..n : r[i] = s[i]
  BY <1>1, <1>3, <1>6
<1>10. Total(s) \in Int /\ Total(r) = Total(s) + r[n+1]
  BY <1>8, <1>9, TotalOfMore
<1> QED  BY <1>2, <1>6, <1>9, <1>10 DEF SumOf

\* An entry moves the difference of the sums as it moves the balance.
LEMMA SumsMove ==
  ASSUME NEW L \in Seq(EntryRows), NEW row, row.balance \in Int, SumsExplain(row, L),
         NEW e \in EntryRows, e.after = Moved(row.balance, e.direction, e.amount),
         NEW new, new.balance = e.after
  PROVE  SumsExplain(new, Append(L, e))
<1>1. PICK c \in Int, d \in Int : c = SumOf(L, "CREDIT") /\ d = SumOf(L, "DEBIT")
  BY SumOfMore DEF Directions
<1>2. /\ SumOf(Append(L, e), "CREDIT") = c + Share(e, "CREDIT")
      /\ SumOf(Append(L, e), "DEBIT") = d + Share(e, "DEBIT")
  BY <1>1, SumOfMore DEF Directions
<1>3. row.balance = c - d
  BY <1>1 DEF SumsExplain
<1>4. PICK b \in Int, a \in Int : b = row.balance /\ a = e.amount
  BY DEF EntryRows
<1>5. CASE e.direction = "CREDIT"
  <2>1. Share(e, "CREDIT") = a /\ Share(e, "DEBIT") = 0 /\ new.balance = b + a
    BY <1>4, <1>5 DEF Share, Moved
  <2> QED  BY <1>2, <1>3, <1>4, <2>1 DEF SumsExplain
<1>6. CASE e.direction = "DEBIT"
  <2>1. Share(e, "CREDIT") = 0 /\ Share(e, "DEBIT") = a /\ new.balance = b - a
    BY <1>4, <1>6 DEF Share, Moved
  <2> QED  BY <1>2, <1>3, <1>4, <2>1 DEF SumsExplain
<1>7. e.direction \in Directions
  BY DEF EntryRows
<1> QED  BY <1>5, <1>6, <1>7 DEF Directions

LEMMA StepSumInv ==
  ASSUME TablesOK, OpenersOK, SumInv, [OpenNext]_openVars
  PROVE  SumInv'
<1>1. ASSUME NEW o \in Openers, CommitOpening(o) PROVE SumInv'
  <2>1. PICK r \in Openings, b \in Int : r = request[o] /\ b = Balance(r)
    BY <1>1, BalanceIsInt64, MaxIntAssumption DEF CommitOpening, OpenersOK, Int64, MinInt
  <2>2. PICK row, L : row = Row(r) /\ L = OpeningEntry(b)
    OBVIOUS
  <2>3. row.balance = b
    BY <2>1, <2>2 DEF Row
  <2>4. SumsExplain(row, L)
    <3>1. PICK none : none = <<>>
      OBVIOUS
    <3>2. SumOf(none, "CREDIT") = 0 /\ SumOf(none, "DEBIT") = 0 /\ none \in Seq(EntryRows)
      BY <3>1, SumOfNone
    <3>3. PICK zero : zero = [balance |-> 0]
      OBVIOUS
    <3>4. zero.balance = 0 /\ SumsExplain(zero, none)
      BY <3>2, <3>3 DEF SumsExplain
    <3>5. CASE b = 0
      BY <2>2, <2>3, <3>1, <3>2, <3>5 DEF OpeningEntry, SumsExplain
    <3>6. CASE b # 0
      <4>1. PICK e : e = LedgerEntry(OpeningTx, "CREDIT", b, 0)
        OBVIOUS
      <4>2. e \in EntryRows /\ e.after = b /\ e.after = Moved(0, e.direction, e.amount)
        BY <4>1 DEF LedgerEntry, Moved, EntryRows, Directions, OpeningTx
      <4>3. L = Append(none, e)
        BY <2>2, <3>1, <3>6, <4>1 DEF OpeningEntry
      <4> QED  BY <2>3, <3>2, <3>4, <4>2, <4>3, SumsMove
    <3> QED  BY <3>5, <3>6
  <2>5. wallets' = Append(wallets, row) /\ ledger' = Append(ledger, L)
    BY <1>1, <2>1, <2>2 DEF CommitOpening
  <2>6. PICK n \in Nat : n = Len(wallets) /\ n = Len(ledger)
    BY DEF TablesOK
  <2>7. /\ DOMAIN wallets = 1..n /\ DOMAIN wallets' = 1..(n+1)
        /\ \A w \in 1..n : wallets'[w] = wallets[w] /\ ledger'[w] = ledger[w]
        /\ wallets'[n+1] = row /\ ledger'[n+1] = L
    BY <2>5, <2>6 DEF TablesOK
  <2>8. \A w \in 1..(n+1) : w \in 1..n \/ w = n + 1
    OBVIOUS
  <2> QED  BY <2>4, <2>7, <2>8 DEF SumInv
<1>2. ASSUME NEW w \in DOMAIN wallets, NEW d \in Directions, NEW a \in Wagers,
             SettleWager(w, d, a)
      PROVE  SumInv'
  <2>1. PICK row \in WalletRows, L \in Seq(EntryRows) : row = wallets[w] /\ L = ledger[w]
    BY DEF TablesOK
  <2>2. PICK e : e = LedgerEntry(Len(L) + 1, d, a, row.balance)
    OBVIOUS
  <2>3. a \in Int /\ row.balance \in Int
    BY WagersAssumption, MaxIntAssumption DEF WalletRows
  <2>4. e \in EntryRows /\ e.after = Moved(row.balance, e.direction, e.amount)
    BY <2>2, <2>3 DEF LedgerEntry, EntryRows, Moved
  <2>5. PICK new, M : new = Updated(row, e.after) /\ M = Append(L, e)
    OBVIOUS
  <2>6. new.balance = e.after
    BY <2>5 DEF Updated
  <2>7. SumsExplain(row, L)
    BY <2>1 DEF SumInv
  <2>8. SumsExplain(new, M)
    BY <2>3, <2>4, <2>5, <2>6, <2>7, SumsMove
  <2>9. wallets' = [wallets EXCEPT ![w] = new] /\ ledger' = [ledger EXCEPT ![w] = M]
    BY <1>2, <2>1, <2>2, <2>5, SettleShape
  <2>10. /\ DOMAIN wallets' = DOMAIN wallets /\ wallets'[w] = new /\ ledger'[w] = M
         /\ \A v \in DOMAIN wallets \ {w} : wallets'[v] = wallets[v] /\ ledger'[v] = ledger[v]
    BY <2>9 DEF TablesOK
  <2> QED  BY <2>8, <2>10 DEF SumInv
<1>3. ASSUME NEW o \in Openers,
             \/ \E r \in Openings : ReceiveOpening(o, r)
             \/ LookupWallet(o) \/ InsertWallet(o) \/ FailOpening(o)
      PROVE  UNCHANGED tables
  BY <1>3 DEF ReceiveOpening, LookupWallet, InsertWallet, FailOpening
<1>4. ASSUME UNCHANGED tables PROVE SumInv'
  BY <1>4 DEF tables, SumInv
<1> QED
  BY <1>1, <1>2, <1>3, <1>4 DEF OpenNext, OpenerStep, openVars

AuditRows ==
  [phase : {"idle", "balance", "consistent", "inconsistent", "error"},
   wallet : Nat, balance : Int, moved : Int]

\* Between its two reads an auditor knows the balance, up to what moved since.
AuditInv ==
  /\ audit \in [Auditors -> AuditRows]
  /\ \A a \in Auditors : audit[a].phase = "balance" =>
       /\ audit[a].wallet \in DOMAIN wallets
       /\ wallets[audit[a].wallet].balance = audit[a].balance + audit[a].moved
  /\ ReconciliationIsExplained

\* A step of an auditor: r is what it knows then.
LEMMA OwnAudit ==
  ASSUME AuditInv, NEW a \in Auditors, NEW r \in AuditRows,
         audit' = [audit EXCEPT ![a] = r], UNCHANGED wallets,
         r.phase = "balance" => /\ r.wallet \in DOMAIN wallets
                                /\ wallets[r.wallet].balance = r.balance + r.moved,
         r.phase \in {"consistent", "inconsistent"} => (r.phase = "consistent" <=> r.moved = 0)
  PROVE  AuditInv'
<1>1. audit' \in [Auditors -> AuditRows]
  BY DEF AuditInv
<1>2. audit'[a] = r /\ \A b \in Auditors \ {a} : audit'[b] = audit[b]
  BY DEF AuditInv
<1>3. ASSUME NEW b \in Auditors, audit'[b].phase = "balance"
      PROVE  /\ audit'[b].wallet \in DOMAIN wallets'
             /\ wallets'[audit'[b].wallet].balance = audit'[b].balance + audit'[b].moved
  BY <1>2, <1>3 DEF AuditInv
<1>4. ASSUME NEW b \in Auditors, audit'[b].phase \in {"consistent", "inconsistent"}
      PROVE  audit'[b].phase = "consistent" <=> audit'[b].moved = 0
  BY <1>2, <1>4 DEF AuditInv, ReconciliationIsExplained
<1> QED  BY <1>1, <1>3, <1>4 DEF AuditInv, ReconciliationIsExplained

LEMMA StepAuditInv ==
  ASSUME TablesOK, OpenersOK, SumInv, AuditInv, [ReadsNext]_readVars
  PROVE  AuditInv'
<1>1. ASSUME UNCHANGED <<wallets, audit>> PROVE AuditInv'
  BY <1>1 DEF AuditInv, ReconciliationIsExplained
<1>2. ASSUME NEW o \in Openers,
             \/ \E r \in Openings : ReceiveOpening(o, r)
             \/ LookupWallet(o) \/ InsertWallet(o) \/ FailOpening(o),
             UNCHANGED <<order, audit, paging>>
      PROVE  AuditInv'
  BY <1>1, <1>2 DEF ReceiveOpening, LookupWallet, InsertWallet, FailOpening, tables
<1>3. ASSUME NEW o \in Openers, CreateWallet(o) PROVE AuditInv'
  <2>1. audit' = audit /\ wallets' = Append(wallets, Row(request[o]))
    BY <1>3 DEF CreateWallet, CommitOpening
  <2>2. \A w \in DOMAIN wallets : w \in DOMAIN wallets' /\ wallets'[w] = wallets[w]
    BY <2>1 DEF TablesOK
  <2> QED  BY <2>1, <2>2 DEF AuditInv, ReconciliationIsExplained
<1>4. ASSUME NEW w \in DOMAIN wallets, NEW d \in Directions, NEW amount \in Wagers, NEW n,
             Settle(w, d, amount, n)
      PROVE  AuditInv'
  <2>1. PICK c \in Int : c = Signed(d, amount)
    BY WagersAssumption, MaxIntAssumption DEF Signed
  <2>2. /\ audit' = AuditsMoved(w, c)
        /\ \E tx : wallets' = [wallets EXCEPT ![w] =
                     Updated(@, LedgerEntry(tx, d, amount, wallets[w].balance).after)]
    BY <1>4, <2>1, SettleShape DEF Settle
  <2>3. PICK b \in Int : b = wallets[w].balance
    <3>1. wallets[w] \in WalletRows
      BY DEF TablesOK
    <3> QED  BY <3>1 DEF WalletRows
  <2>4. amount \in Int /\ d \in {"CREDIT", "DEBIT"}
    BY WagersAssumption, MaxIntAssumption DEF Directions
  <2>5. PICK tx : wallets' = [wallets EXCEPT ![w] =
                    Updated(@, LedgerEntry(tx, d, amount, b).after)]
    BY <2>2, <2>3
  <2>6. LedgerEntry(tx, d, amount, b).after = b + c
    BY <2>1, <2>3, <2>4 DEF LedgerEntry, Moved, Signed
  <2>7. /\ DOMAIN wallets' = DOMAIN wallets /\ wallets'[w].balance = b + c
        /\ \A v \in DOMAIN wallets \ {w} : wallets'[v] = wallets[v]
    BY <2>5, <2>6 DEF TablesOK, Updated
  <2>8. ASSUME NEW a \in Auditors
        PROVE  /\ audit'[a] \in AuditRows
               /\ audit'[a].phase = "balance" =>
                    /\ audit'[a].wallet \in DOMAIN wallets'
                    /\ wallets'[audit'[a].wallet].balance = audit'[a].balance + audit'[a].moved
               /\ audit'[a].phase \in {"consistent", "inconsistent"} =>
                    (audit'[a].phase = "consistent" <=> audit'[a].moved = 0)
    <3>1. PICK r \in AuditRows : r = audit[a]
      BY DEF AuditInv
    <3>2. CASE r.phase = "balance" /\ r.wallet = w
      <4>1. audit'[a] = [r EXCEPT !.moved = @ + c]
        BY <2>2, <3>1, <3>2 DEF AuditsMoved
      <4>2. /\ audit'[a] \in AuditRows /\ audit'[a].phase = "balance" /\ audit'[a].wallet = w
            /\ audit'[a].balance = r.balance /\ audit'[a].moved = r.moved + c
        BY <3>2, <4>1, <2>1 DEF AuditRows
      <4>3. b = r.balance + r.moved /\ r.balance \in Int /\ r.moved \in Int
        BY <2>3, <3>1, <3>2 DEF AuditInv, AuditRows
      <4>4. b + c = r.balance + (r.moved + c)
        BY <2>1, <4>3
      <4> QED  BY <2>7, <4>2, <4>4
    <3>3. CASE ~(r.phase = "balance" /\ r.wallet = w)
      <4>1. audit'[a] = r
        BY <2>2, <3>1, <3>3 DEF AuditsMoved
      <4> QED  BY <2>7, <3>1, <3>3, <4>1 DEF AuditInv, ReconciliationIsExplained
    <3> QED  BY <3>2, <3>3
  <2>9. DOMAIN audit' = Auditors /\ audit' = [a \in Auditors |-> audit'[a]]
    BY <2>2 DEF AuditsMoved
  <2>10. audit' \in [Auditors -> AuditRows]
    BY <2>8, <2>9
  <2> QED  BY <2>8, <2>10 DEF AuditInv, ReconciliationIsExplained
<1>5. ASSUME NEW a \in Auditors, NEW w \in DOMAIN wallets \cup {NoWallet}, ReadBalance(a, w)
      PROVE  AuditInv'
  <2>1. UNCHANGED wallets
    BY <1>5 DEF ReadBalance, openVars, tables
  <2>2. CASE w = NoWallet
    <3>1. PICK r : r = [NoAudit EXCEPT !.phase = "error"]
      OBVIOUS
    <3>2. r \in AuditRows /\ r.phase = "error"
      BY <3>1 DEF NoAudit, AuditRows, NoWallet
    <3>3. audit' = [audit EXCEPT ![a] = r]
      BY <1>5, <2>2, <3>1 DEF ReadBalance
    <3> QED  BY <2>1, <3>2, <3>3, OwnAudit
  <2>3. CASE w # NoWallet
    <3>1. PICK r : r = [phase |-> "balance", wallet |-> w, balance |-> wallets[w].balance, moved |-> 0]
      OBVIOUS
    <3>0. w \in DOMAIN wallets /\ w \in Nat /\ wallets[w] \in WalletRows
      BY <2>3 DEF TablesOK
    <3>2. w \in DOMAIN wallets /\ w \in Nat /\ wallets[w].balance \in Int
      BY <3>0 DEF WalletRows
    <3>3. /\ r \in AuditRows /\ r.phase = "balance" /\ r.wallet = w
          /\ wallets[r.wallet].balance = r.balance + r.moved
      BY <3>1, <3>2 DEF AuditRows
    <3>4. audit' = [audit EXCEPT ![a] = r]
      BY <1>5, <2>3, <3>1 DEF ReadBalance
    <3> QED  BY <2>1, <3>2, <3>3, <3>4, OwnAudit
  <2> QED  BY <2>2, <2>3
<1>6. ASSUME NEW a \in Auditors, ReadSums(a) PROVE AuditInv'
  <2>1. PICK w, b \in Int, m \in Int :
          /\ w = audit[a].wallet /\ b = audit[a].balance /\ m = audit[a].moved
          /\ w \in DOMAIN wallets /\ wallets[w].balance = b + m /\ audit[a].phase = "balance"
    BY <1>6 DEF ReadSums, AuditInv, AuditRows
  <2>2. PICK c \in Int, d \in Int : c = SumByWalletID(w, "CREDIT") /\ d = SumByWalletID(w, "DEBIT")
    <3>1. \A x \in Directions : SumOf(ledger[w], x) \in Int
      <4>1. ledger[w] \in Seq(EntryRows)
        BY <2>1 DEF TablesOK
      <4>2. PICK e : e = LedgerEntry(0, "CREDIT", 0, 0)
        OBVIOUS
      <4>3. e \in EntryRows
        BY <4>2 DEF LedgerEntry, EntryRows, Moved, Directions
      <4> QED  BY <4>1, <4>3, SumOfMore
    <3> QED  BY <3>1 DEF SumOf, SumByWalletID, Directions
  <2>3. b + m = c - d
    BY <2>1, <2>2 DEF SumInv, SumsExplain, SumOf, SumByWalletID
  <2>4. PICK ph : ph = IF c > MaxInt \/ d > MaxInt THEN "error"
                       ELSE IF c - d = b THEN "consistent" ELSE "inconsistent"
    OBVIOUS
  <2>5. UNCHANGED wallets /\ audit' = [audit EXCEPT ![a].phase = ph]
    BY <1>6, <2>1, <2>2, <2>4 DEF ReadSums, openVars, tables
  <2>6. PICK r : r = [audit[a] EXCEPT !.phase = ph]
    OBVIOUS
  <2>7. r \in AuditRows /\ r.phase = ph /\ r.moved = m
    BY <2>1, <2>4, <2>6 DEF AuditInv, AuditRows
  <2>8. audit' = [audit EXCEPT ![a] = r]
    BY <2>5, <2>6
  <2>9. c - d = b <=> m = 0
    BY <2>3
  <2> QED  BY <2>4, <2>5, <2>7, <2>8, <2>9, OwnAudit
<1>7. ASSUME NEW g \in Readers, (\E w : StartPaging(g, w)) \/ ReadPage(g) PROVE AuditInv'
  BY <1>1, <1>7 DEF StartPaging, ReadPage, openVars, tables
<1>8. CASE UNCHANGED readVars
  BY <1>1, <1>8 DEF readVars, openVars, tables
<1> QED  BY <1>2, <1>3, <1>4, <1>5, <1>6, <1>7, <1>8 DEF ReadsNext

(***************************************************************************)
(* Paging.                                                                  *)
(***************************************************************************)
EntryIds == Nat \ {NoEntry}
PagingRows ==
  [phase : {"idle", "reading", "done"}, wallet : Nat, cursor : Nat,
   seen : Seq(EntryIds), late : SUBSET Nat]

\* What a reader has been given of a ledger in order s: entries of it, in order, all
\* of them up to its cursor but late ones, and all when it is done.
GoodPages(P, s) ==
  /\ Members(P.seen) \subseteq Members(s)
  /\ P.cursor = IF P.seen = <<>> THEN NoEntry ELSE LastRow(P.seen)
  /\ \A i, j \in DOMAIN P.seen : i < j => Place(s, P.seen[i]) < Place(s, P.seen[j])
  /\ P.seen # <<>> =>
       \A e \in Members(s) : Place(s, e) <= Place(s, P.cursor) => e \in Members(P.seen) \cup P.late
  /\ P.phase = "done" => Members(s) \subseteq Members(P.seen) \cup P.late

OrderInv ==
  /\ order \in Seq(Seq(EntryIds)) /\ Len(order) = Len(wallets)
  /\ \A w \in DOMAIN order :
       Distinct(order[w]) /\ Members(order[w]) = Entries(w) /\ Len(order[w]) = Len(ledger[w])

PagingInv ==
  /\ paging \in [Readers -> PagingRows]
  /\ \A g \in Readers :
       IF paging[g].phase = "idle" THEN paging[g].seen = <<>> /\ paging[g].cursor = NoEntry
       ELSE /\ paging[g].wallet \in DOMAIN order
            /\ GoodPages(paging[g], order[paging[g].wallet])

\* The cursor is an entry of the ledger.
LEMMA CursorIsSeen ==
  ASSUME NEW P \in PagingRows, NEW s, GoodPages(P, s)
  PROVE  /\ P.seen = <<>> <=> P.cursor = NoEntry
         /\ P.seen # <<>> => /\ P.cursor = P.seen[Len(P.seen)] /\ Len(P.seen) \in DOMAIN P.seen
                             /\ P.cursor \in Members(s)
<1>1. P.seen \in Seq(EntryIds)
  BY DEF PagingRows
<1>2. ASSUME P.seen # <<>>
      PROVE  Len(P.seen) \in DOMAIN P.seen /\ P.cursor = P.seen[Len(P.seen)]
  BY <1>1, <1>2 DEF GoodPages, LastRow
<1>3. P.seen # <<>> => P.cursor \in EntryIds /\ P.cursor \in Members(P.seen)
  BY <1>1, <1>2 DEF Members
<1> QED  BY <1>2, <1>3 DEF GoodPages, EntryIds

\* A new row changes the order of no others, and is before those behind its place only.
LEMMA RowPut ==
  ASSUME NEW A, NEW s \in Seq(A), Distinct(s), NEW x \in A, x \notin Members(s),
         NEW k \in 0..Len(s)
  PROVE  \E n \in Seq(A) :
         /\ n = Insert(s, k, <<x>>) /\ Len(n) = Len(s) + 1
         /\ Distinct(n) /\ Members(n) = Members(s) \cup {x}
         /\ \A d, e \in Members(s) : Place(n, d) < Place(n, e) <=> Place(s, d) < Place(s, e)
         /\ \A e \in Members(s) : Place(n, x) < Place(n, e) => k < Place(s, e)
<1>1. PICK r \in Seq(A) : r = <<x>> /\ Len(r) = 1 /\ r[1] = x /\ DOMAIN r = 1..1
  <2>1. PICK r : r = <<x>>
    OBVIOUS
  <2>2. r \in Seq(A) /\ Len(r) = 1 /\ r[1] = x
    BY <2>1
  <2>3. DOMAIN r = 1..1
    BY <2>2
  <2> QED  BY <2>1, <2>2, <2>3
<1>2. Distinct(r) /\ Members(r) = {x} /\ Members(s) \cap Members(r) = {}
  BY <1>1 DEF Distinct, Members
<1>3. PICK n \in Seq(A) :
        /\ n = Insert(s, k, r) /\ PutBehind(n, s, r, k)
        /\ Distinct(n) /\ Members(n) = Members(s) \cup Members(r)
        /\ \A d, e : Before(s, d, e) \/ Before(r, d, e) => Before(n, d, e)
  BY <1>2, RowsInserted
<1>4. Members(n) = Members(s) \cup {x}
  BY <1>2, <1>3
<1>5. PICK S \in Nat : S = Len(s) /\ k \in Nat /\ k <= S
  OBVIOUS
<1>6. Len(n) = S + 1 /\ (\A i \in 1..k : n[i] = s[i]) /\ n[k+1] = x
  <2>1. PutBehind(n, s, r, k)
    BY <1>3
  <2>2. 1 \in 1..Len(r)
    BY <1>1
  <2> QED  BY <1>1, <1>5, <2>1, <2>2 DEF PutBehind
<1>7. ASSUME NEW d \in Members(n), NEW e \in Members(n)
      PROVE  Place(n, d) \in 1..Len(n) /\ Place(n, e) \in 1..Len(n)
             /\ (d = e <=> Place(n, d) = Place(n, e))
             /\ (Before(n, d, e) <=> Place(n, d) < Place(n, e))
  BY <1>3, PlacesInOrder
<1>8. ASSUME NEW d \in Members(s), NEW e \in Members(s)
      PROVE  Place(n, d) < Place(n, e) <=> Place(s, d) < Place(s, e)
  <2>1. PICK a \in Nat, b \in Nat, f \in Nat, g \in Nat :
          a = Place(s, d) /\ b = Place(s, e) /\ f = Place(n, d) /\ g = Place(n, e)
    <3>1. Place(s, d) \in 1..S /\ Place(s, e) \in 1..S
      BY <1>5, PlacesInOrder
    <3>2. Place(n, d) \in 1..(S+1) /\ Place(n, e) \in 1..(S+1)
      BY <1>4, <1>6, <1>7
    <3> QED  BY <3>1, <3>2
  <2>2. (d = e <=> a = b) /\ (Before(s, d, e) <=> a < b) /\ (Before(s, e, d) <=> b < a)
    BY <2>1, PlacesInOrder
  <2>3. (d = e <=> f = g) /\ (Before(n, d, e) <=> f < g) /\ (Before(n, e, d) <=> g < f)
    BY <1>4, <1>7, <2>1
  <2>4. (a < b => f < g) /\ (b < a => g < f) /\ (a = b => f = g)
    BY <1>3, <2>2, <2>3
  <2>5. f < g <=> a < b
    BY <2>4
  <2> QED  BY <2>1, <2>5
<1>9. ASSUME NEW e \in Members(s), Place(n, x) < Place(n, e) PROVE k < Place(s, e)
  <2>1. PICK m \in 1..S : m = Place(s, e) /\ s[m] = e
    BY <1>5, PlacesInOrder
  <2>2. SUFFICES ASSUME m <= k PROVE FALSE
    BY <1>5, <2>1
  <2>3. /\ n[m] = e /\ n[k+1] = x /\ m \in DOMAIN n /\ k + 1 \in DOMAIN n /\ m < k + 1
    BY <1>3, <1>5, <1>6, <2>1, <2>2
  <2>4. Before(n, e, x)
    BY <2>3 DEF Before
  <2>5. Place(n, e) < Place(n, x) /\ Place(n, e) \in Nat /\ Place(n, x) \in Nat
    BY <1>3, <1>4, <1>6, <1>7, <2>4
  <2> QED  BY <1>9, <2>5
<1> QED  BY <1>1, <1>3, <1>4, <1>5, <1>6, <1>8, <1>9

\* A new entry before the cursor is late, one behind it will still be read.
LEMMA PagesStand ==
  ASSUME NEW s \in Seq(EntryIds), Distinct(s), NEW x \in EntryIds, x \notin Members(s),
         NEW k \in 0..Len(s), NEW P \in PagingRows, GoodPages(P, s),
         NEW Q \in PagingRows, Q.phase = P.phase, Q.cursor = P.cursor, Q.seen = P.seen,
         P.late \subseteq Q.late,
         P.phase = "done" \/ (P.cursor # NoEntry /\ k < Place(s, P.cursor)) => x \in Q.late
  PROVE  GoodPages(Q, Insert(s, k, <<x>>))
<1>1. PICK n \in Seq(EntryIds) :
         /\ n = Insert(s, k, <<x>>) /\ Len(n) = Len(s) + 1
         /\ Distinct(n) /\ Members(n) = Members(s) \cup {x}
         /\ \A d, e \in Members(s) : Place(n, d) < Place(n, e) <=> Place(s, d) < Place(s, e)
         /\ \A e \in Members(s) : Place(n, x) < Place(n, e) => k < Place(s, e)
  BY RowPut
<1>2. P.seen \in Seq(EntryIds) /\ \A i \in DOMAIN P.seen : P.seen[i] \in Members(s)
  BY DEF PagingRows, GoodPages, Members
<1>3. \A i, j \in DOMAIN P.seen : i < j => Place(n, P.seen[i]) < Place(n, P.seen[j])
  BY <1>1, <1>2 DEF GoodPages
<1>4. ASSUME P.seen # <<>>, NEW e \in Members(n), Place(n, e) <= Place(n, P.cursor)
      PROVE  e \in Members(P.seen) \cup Q.late
  <2>1. P.cursor \in Members(s) /\ P.cursor # NoEntry
    BY <1>4, CursorIsSeen
  <2>2. /\ Place(n, e) \in Nat /\ Place(n, P.cursor) \in Nat
        /\ e = P.cursor <=> Place(n, e) = Place(n, P.cursor)
    <3>1. P.cursor \in Members(n) /\ Len(n) \in Nat
      BY <1>1, <2>1
    <3> QED  BY <1>1, <1>4, <3>1, PlacesInOrder
  <2>3. CASE e = x
    <3>1. Place(n, x) < Place(n, P.cursor)
      BY <1>4, <2>1, <2>2, <2>3
    <3> QED  BY <1>1, <2>1, <2>3, <3>1
  <2>4. CASE e # x
    <3>1. e \in Members(s)
      BY <1>1, <1>4, <2>4
    <3>2. Place(s, e) \in Nat /\ Place(s, P.cursor) \in Nat
      <4>1. Len(s) \in Nat
        OBVIOUS
      <4> QED  BY <2>1, <3>1, <4>1, PlacesInOrder
    <3>3. ~(Place(n, P.cursor) < Place(n, e))
      BY <1>4, <2>2
    <3>4. ~(Place(s, P.cursor) < Place(s, e))
      BY <1>1, <2>1, <3>1, <3>3
    <3>5. Place(s, e) <= Place(s, P.cursor)
      BY <3>2, <3>4
    <3> QED  BY <1>4, <3>1, <3>5 DEF GoodPages
  <2> QED  BY <2>3, <2>4
<1>5. P.phase = "done" => Members(n) \subseteq Members(P.seen) \cup Q.late
  BY <1>1 DEF GoodPages
<1>6. Members(P.seen) \subseteq Members(n)
  BY <1>1 DEF GoodPages
<1>7. P.cursor = IF P.seen = <<>> THEN NoEntry ELSE LastRow(P.seen)
  BY DEF GoodPages
<1>8. GoodPages(Q, n)
  BY <1>3, <1>4, <1>5, <1>6, <1>7 DEF GoodPages
<1> QED  BY <1>1, <1>8

\* The page has the rows of s from f to t; it is empty behind the last of the S rows.
PageIs(page, S, s, f, t) ==
  /\ Len(page) = t - f + 1 /\ t <= S /\ f - 1 <= t
  /\ \A i \in 1..Len(page) : page[i] = s[f + i - 1]
  /\ page = <<>> => t = S /\ f = S + 1
PageEnd(S, f) == IF f + PageSize - 1 < S THEN f + PageSize - 1 ELSE S

\* SubSeq gives as many as fit on a page.
LEMMA PageRows ==
  ASSUME NEW A, NEW S \in Nat, NEW s \in Seq(A), Len(s) = S, NEW f \in 1..(S+1),
         NEW t \in Nat, t = PageEnd(S, f), NEW page, page = SubSeq(s, f, t)
  PROVE  page \in Seq(A) /\ PageIs(page, S, s, f, t)
<1>1. t <= S /\ f - 1 <= t /\ (t < f => t = S /\ f = S + 1) /\ f \in Nat
  BY PageAssumption DEF PageEnd
<1>2. page = SubSeq(s, f, t)
  OBVIOUS
<1>3. \A i \in f..t : s[i] \in A
  BY <1>1
<1>4. f \in Int /\ t \in Int
  BY <1>1
<1>5. /\ page \in Seq(A) /\ Len(page) = IF f <= t THEN t - f + 1 ELSE 0
      /\ \A i \in 1..(t - f + 1) : page[i] = s[f + i - 1]
  BY <1>2, <1>3, <1>4, SubSeqProperties
<1>6. Len(page) = t - f + 1
  BY <1>1, <1>5
<1>7. page = <<>> => t < f
  BY <1>1, <1>6
<1> QED  BY <1>1, <1>5, <1>6, <1>7 DEF PageIs

Joined(w, u, v) ==
  /\ Len(w) = Len(u) + Len(v)
  /\ \A i \in 1..(Len(u) + Len(v)) : w[i] = IF i <= Len(u) THEN u[i] ELSE v[i - Len(u)]

LEMMA RowsJoined ==
  ASSUME NEW A, NEW u \in Seq(A), NEW v \in Seq(A)
  PROVE  u \o v \in Seq(A) /\ Joined(u \o v, u, v)
BY ConcatProperties DEF Joined

\* The page that a reader of a ledger in order s reads next.
Behind(P, s) == IF P.cursor = NoEntry THEN 1 ELSE Place(s, P.cursor) + 1
PageBehind(P, s) == SubSeq(s, Behind(P, s), PageEnd(Len(s), Behind(P, s)))
PagesGood(Q, P, s) ==
  Q \in PagingRows /\ Q.wallet = P.wallet /\ Q.phase # "idle" /\ GoodPages(Q, s)

\* A page goes on where the cursor was.
LEMMA PagesContinue ==
  ASSUME NEW s \in Seq(EntryIds), Distinct(s),
         NEW P \in PagingRows, GoodPages(P, s), P.phase = "reading"
  PROVE  PagesGood(WithPage(P, PageBehind(P, s)), P, s)
<1> PICK S \in Nat : S = Len(s)
  OBVIOUS
<1> PICK f : f = IF P.cursor = NoEntry THEN 1 ELSE Place(s, P.cursor) + 1
  OBVIOUS
<1> PICK t : t = PageEnd(S, f)
  OBVIOUS
<1> PICK page : page = SubSeq(s, f, t) /\ page = PageBehind(P, s)
  BY DEF PageBehind, Behind
<1> PICK Q : Q = WithPage(P, page) /\ Q = IF page = <<>> THEN [P EXCEPT !.phase = "done"]
                    ELSE [P EXCEPT !.seen = @ \o page, !.cursor = LastRow(page)]
  BY DEF WithPage
<1> SUFFICES Q \in PagingRows /\ Q.wallet = P.wallet /\ Q.phase # "idle" /\ GoodPages(Q, s)
  BY DEF PagesGood
<1>1. PICK z \in Nat : z = Len(P.seen) /\ P.seen \in Seq(EntryIds) /\ DOMAIN P.seen = 1..z
  BY DEF PagingRows
<1>2. f \in 1..(S+1)
  <2>1. P.cursor # NoEntry => Place(s, P.cursor) \in 1..S
    BY CursorIsSeen, PlacesInOrder
  <2> QED  BY <2>1
<1>3. t \in Nat
  BY <1>2, PageAssumption DEF PageEnd
<1>4. /\ page \in Seq(EntryIds) /\ Len(page) = t - f + 1 /\ t <= S /\ f - 1 <= t
      /\ \A i \in 1..Len(page) : page[i] = s[f + i - 1]
      /\ page = <<>> => t = S /\ f = S + 1
  <2>1. page \in Seq(EntryIds) /\ PageIs(page, S, s, f, t)
    BY <1>2, <1>3, PageRows
  <2> QED  BY <2>1 DEF PageIs
<1>5. PICK q \in Nat : q = t - f + 1 /\ q = Len(page)
  BY <1>2, <1>3, <1>4
<1>6. \A m \in 1..S : s[m] \in Members(s) /\ Place(s, s[m]) = m
  BY PlaceIs DEF Members
<1>7. \A e \in Members(s) : Place(s, e) \in 1..S /\ s[Place(s, e)] = e
  BY PlacesInOrder
\* Whatever comes before the page has been given, or is late.
<1>8. ASSUME NEW e \in Members(s), Place(s, e) < f PROVE e \in Members(P.seen) \cup P.late
  <2>1. P.cursor # NoEntry
    BY <1>7, <1>8
  <2>2. P.seen # <<>> /\ Place(s, P.cursor) + 1 = f /\ Place(s, P.cursor) \in 1..S
    BY <1>7, <2>1, CursorIsSeen
  <2>3. Place(s, e) <= Place(s, P.cursor)
    BY <1>7, <1>8, <2>2
  <2> QED  BY <2>2, <2>3 DEF GoodPages
<1>9. CASE page = <<>>
  <2>1. PICK R : R = [P EXCEPT !.phase = "done"]
    OBVIOUS
  <2>2. /\ R \in PagingRows /\ R.wallet = P.wallet /\ R.phase = "done"
        /\ R.seen = P.seen /\ R.cursor = P.cursor /\ R.late = P.late
    BY <2>1 DEF PagingRows
  <2>3. Members(s) \subseteq Members(P.seen) \cup P.late
    <3>1. \A e \in Members(s) : Place(s, e) < f
      BY <1>4, <1>7, <1>9
    <3> QED  BY <1>8, <3>1
  <2>4. GoodPages(R, s)
    BY <2>2, <2>3 DEF GoodPages
  <2> QED  BY <1>9, <2>1, <2>2, <2>4
<1>10. CASE page # <<>>
  <2>1. PICK T : T = P.seen \o page
    OBVIOUS
  <2>2. q # 0
    BY <1>4, <1>5, <1>10
  <2>3. /\ T \in Seq(EntryIds) /\ Len(T) = z + q /\ DOMAIN T = 1..(z+q)
        /\ \A i \in 1..(z+q) : T[i] = IF i <= z THEN P.seen[i] ELSE page[i - z]
    <3>1. PICK u \in Seq(EntryIds) : u = P.seen /\ Len(u) = z
      BY <1>1
    <3>2. PICK v \in Seq(EntryIds) : v = page /\ Len(v) = q
      BY <1>4, <1>5
    <3>3. PICK w : w = u \o v
      OBVIOUS
    <3>4. /\ w \in Seq(EntryIds) /\ Len(w) = z + q
          /\ \A i \in 1..(z+q) : w[i] = IF i <= z THEN u[i] ELSE v[i - z]
      <4>1. w \in Seq(EntryIds) /\ Joined(w, u, v)
        BY <3>1, <3>2, <3>3, RowsJoined
      <4> QED  BY <3>1, <3>2, <4>1 DEF Joined
    <3>5. w = T
      BY <2>1, <3>1, <3>2, <3>3
    <3>6. DOMAIN w = 1..(z+q)
      BY <3>4
    <3>7. \A i \in 1..(z+q) : w[i] = IF i <= z THEN P.seen[i] ELSE page[i - z]
      BY <3>1, <3>2, <3>4
    <3> QED  BY <3>4, <3>5, <3>6, <3>7
  <2>4. ASSUME NEW i \in 1..z PROVE T[i] = P.seen[i] /\ T[i] \in Members(s) /\ Place(s, T[i]) < f
    <3>1. T[i] = P.seen[i] /\ i \in DOMAIN P.seen /\ P.seen # <<>>
      BY <1>1, <2>3
    <3>2. T[i] \in Members(s)
      BY <3>1 DEF GoodPages, Members
    <3>3. P.cursor = P.seen[z] /\ z \in DOMAIN P.seen /\ P.cursor # NoEntry /\ P.cursor \in Members(s)
      BY <1>1, <3>1, CursorIsSeen
    <3>4. Place(s, T[i]) <= Place(s, P.cursor)
      <4>1. CASE i = z
        BY <1>7, <3>1, <3>2, <3>3, <4>1
      <4>2. CASE i < z
        <5>1. Place(s, P.seen[i]) < Place(s, P.seen[z])
          BY <3>1, <3>3, <4>2 DEF GoodPages
        <5> QED  BY <1>7, <3>1, <3>2, <3>3, <5>1
      <4> QED  BY <4>1, <4>2
    <3>5. f = Place(s, P.cursor) + 1
      BY <3>3
    <3> QED  BY <1>7, <3>1, <3>2, <3>3, <3>4, <3>5
  <2>5. ASSUME NEW i \in (z+1)..(z+q)
        PROVE  /\ T[i] \in Members(s) /\ Place(s, T[i]) = f + (i - z) - 1
               /\ f + (i - z) - 1 \in 1..S
    <3>1. i - z \in 1..q /\ ~(i <= z) /\ i \in 1..(z+q)
      OBVIOUS
    <3>2. PICK k \in 1..q : k = i - z
      BY <3>1
    <3>3. f + k - 1 \in 1..S
      <4>1. PICK a \in 1..(S+1), b \in Nat : a = f /\ b = t /\ b <= S
        BY <1>2, <1>3, <1>4
      <4>2. q = b - a + 1
        BY <1>5, <4>1
      <4>3. a + k - 1 \in 1..S
        BY <4>1, <4>2
      <4> QED  BY <4>1, <4>3
    <3>4. T[i] = page[k]
      BY <2>3, <3>1, <3>2
    <3>5. page[k] = s[f + k - 1]
      BY <1>4, <1>5
    <3> QED  BY <1>6, <3>2, <3>3, <3>4, <3>5
  <2>6. \A i \in 1..(z+q) : i \in 1..z \/ i \in (z+1)..(z+q)
    OBVIOUS
  <2>7. Members(T) \subseteq Members(s)
    <3>1. \A i \in DOMAIN T : T[i] \in Members(s)
      BY <2>3, <2>4, <2>5, <2>6
    <3> QED  BY <3>1 DEF Members
  <2>8. ASSUME NEW i \in DOMAIN T, NEW j \in DOMAIN T, i < j
        PROVE  Place(s, T[i]) < Place(s, T[j])
    <3>1. CASE j \in 1..z
      <4>1. i \in 1..z
        BY <2>3, <2>8, <3>1
      <4> QED  BY <1>1, <2>4, <2>8, <3>1, <4>1 DEF GoodPages
    <3>2. CASE i \in 1..z /\ j \in (z+1)..(z+q)
      <4>1. Place(s, T[i]) < f /\ Place(s, T[j]) >= f /\ Place(s, T[i]) \in 1..S
        BY <1>2, <1>7, <2>4, <2>5, <3>2
      <4> QED  BY <1>2, <2>5, <3>2, <4>1
    <3>3. CASE i \in (z+1)..(z+q) /\ j \in (z+1)..(z+q)
      BY <1>2, <2>5, <2>8, <3>3
    <3> QED  BY <2>3, <2>6, <2>8, <3>1, <3>2, <3>3
  <2>9. PICK c : c = LastRow(page)
    OBVIOUS
  <2>10. c = T[z+q] /\ LastRow(T) = c /\ T # <<>> /\ c \in EntryIds
    <3>1. z + q \in 1..(z+q) /\ ~(z + q <= z) /\ (z + q) - z = q
      BY <2>2
    <3>2. T[z+q] = page[q] /\ page[q] = c /\ T[Len(T)] = c
      BY <1>5, <2>3, <2>9, <3>1 DEF LastRow
    <3>3. T # <<>> /\ c \in EntryIds
      <4>1. Len(T) # 0 /\ Len(T) \in DOMAIN T
        BY <2>3, <3>1
      <4> QED  BY <2>3, <3>2, <4>1
    <3> QED  BY <3>2, <3>3 DEF LastRow
  <2>11. Place(s, c) = t
    <3>1. z + q \in (z+1)..(z+q)
      BY <2>2
    <3>2. Place(s, T[z+q]) = f + ((z + q) - z) - 1
      BY <2>5, <3>1
    <3>3. f + ((z + q) - z) - 1 = t
      BY <1>2, <1>3, <1>5
    <3> QED  BY <2>10, <3>2, <3>3
  <2>12. ASSUME NEW e \in Members(s), Place(s, e) <= t PROVE e \in Members(T) \cup P.late
    <3>1. CASE Place(s, e) < f
      <4>1. Members(P.seen) \subseteq Members(T)
        <5>1. \A i \in DOMAIN P.seen : i \in DOMAIN T /\ T[i] = P.seen[i]
          BY <1>1, <2>3, <2>4
        <5> QED  BY <5>1 DEF Members
      <4> QED  BY <1>8, <3>1, <4>1
    <3>2. CASE ~(Place(s, e) < f)
      <4>1. PICK m \in 1..S : m = Place(s, e) /\ s[m] = e
        BY <1>7
      <4>2. m - f + 1 \in 1..q /\ f + (m - f + 1) - 1 = m
        BY <1>2, <1>3, <1>5, <2>12, <3>2, <4>1
      <4>3. page[m - f + 1] = e
        BY <1>4, <1>5, <4>1, <4>2
      <4>4. PICK i \in 1..(z+q) : i = z + (m - f + 1) /\ ~(i <= z) /\ i - z = m - f + 1
        BY <1>2, <4>2
      <4>5. T[i] = e
        BY <2>3, <4>3, <4>4
      <4> QED  BY <2>3, <4>5 DEF Members
    <3> QED  BY <3>1, <3>2
  <2>13. PICK R : R = [P EXCEPT !.seen = T, !.cursor = c]
    OBVIOUS
  <2>14. /\ R \in PagingRows /\ R.wallet = P.wallet /\ R.phase = "reading"
         /\ R.seen = T /\ R.cursor = c /\ R.late = P.late
    BY <2>3, <2>10, <2>13 DEF PagingRows, EntryIds
  <2>15. GoodPages(R, s)
    BY <2>7, <2>8, <2>10, <2>11, <2>12, <2>14 DEF GoodPages
  <2>16. Q = R
    BY <1>10, <2>1, <2>9, <2>13
  <2> QED  BY <2>14, <2>15, <2>16
<1> QED  BY <1>9, <1>10

LEMMA StepOrderInv ==
  ASSUME TablesOK, OpenersOK, OrderInv, [ReadsNext]_readVars
  PROVE  OrderInv'
<1>1. ASSUME UNCHANGED <<wallets, ledger, order>> PROVE OrderInv'
  BY <1>1 DEF OrderInv, Entries
<1>2. ASSUME NEW o \in Openers,
             \/ \E r \in Openings : ReceiveOpening(o, r)
             \/ LookupWallet(o) \/ InsertWallet(o) \/ FailOpening(o),
             UNCHANGED <<order, audit, paging>>
      PROVE  OrderInv'
  BY <1>1, <1>2 DEF ReceiveOpening, LookupWallet, InsertWallet, FailOpening, tables
<1>3. ASSUME NEW o \in Openers, CreateWallet(o) PROVE OrderInv'
  <2>1. PICK L, s : L = OpeningEntry(Balance(request[o])) /\ s = [i \in DOMAIN L |-> i]
    OBVIOUS
  <2>2. /\ order' = Append(order, s) /\ ledger' = Append(ledger, L)
        /\ wallets' = Append(wallets, Row(request[o]))
    BY <1>3, <2>1 DEF CreateWallet, CommitOpening
  <2>3. PICK k \in 0..1 : k = Len(L) /\ DOMAIN L = 1..k
    BY <2>1 DEF OpeningEntry
  <2>4. s \in [1..k -> EntryIds] /\ \A i \in 1..k : s[i] = i
    BY <2>1, <2>3 DEF EntryIds, NoEntry
  <2>5. s \in Seq(EntryIds) /\ Len(s) = k /\ DOMAIN s = 1..k
    BY <2>4
  <2>6. Distinct(s) /\ Members(s) = 1..k
    BY <2>4, <2>5 DEF Distinct, Members
  <2>7. PICK n \in Nat : n = Len(wallets) /\ n = Len(ledger) /\ n = Len(order)
    BY DEF TablesOK, OrderInv
  <2>8. /\ DOMAIN order = 1..n /\ DOMAIN order' = 1..(n+1)
        /\ Len(wallets') = n + 1 /\ Len(order') = n + 1 /\ order' \in Seq(Seq(EntryIds))
        /\ \A w \in 1..n : ledger'[w] = ledger[w] /\ order'[w] = order[w]
        /\ ledger'[n+1] = L /\ order'[n+1] = s
    <3>1. /\ DOMAIN order = 1..n /\ DOMAIN order' = 1..(n+1) /\ Len(order') = n + 1
          /\ order' \in Seq(Seq(EntryIds)) /\ order'[n+1] = s
          /\ \A w \in 1..n : order'[w] = order[w]
      BY <2>2, <2>5, <2>7 DEF OrderInv
    <3>2. Len(wallets') = n + 1
      <4>1. PICK row : wallets' = Append(wallets, row)
        BY <2>2
      <4>2. PICK s1 : s1 = wallets /\ s1 \in Seq(WalletRows) /\ Len(s1) = n
        BY <2>7 DEF TablesOK
      <4>3. Len(Append(s1, row)) = n + 1
        BY <4>2
      <4> QED  BY <4>1, <4>2, <4>3
    <3>3. ledger'[n+1] = L /\ \A w \in 1..n : ledger'[w] = ledger[w]
      BY <2>2, <2>7 DEF TablesOK
    <3> QED  BY <3>1, <3>2, <3>3
  <2>9. \A w \in 1..(n+1) : w \in 1..n \/ w = n + 1
    OBVIOUS
  <2> QED  BY <2>3, <2>5, <2>6, <2>8, <2>9 DEF OrderInv, Entries
<1>4. ASSUME NEW w \in DOMAIN wallets, NEW d \in Directions, NEW a \in Wagers,
             NEW n \in 0..Len(order[w]), Settle(w, d, a, n)
      PROVE  OrderInv'
  <2>1. PICK s \in Seq(EntryIds), L \in Seq(EntryRows) :
          /\ s = order[w] /\ L = ledger[w] /\ Distinct(s)
          /\ Members(s) = 1..Len(L) /\ Len(s) = Len(L)
    BY DEF TablesOK, OrderInv, Entries
  <2>2. PICK l \in Nat : l = Len(L)
    OBVIOUS
  <2>3. PICK x \in EntryIds : x = l + 1
    BY DEF EntryIds, NoEntry
  <2>4. x \notin Members(s) /\ n \in 0..Len(s)
    BY <2>1, <2>2, <2>3
  <2>5. PICK r \in Seq(EntryIds) :
         /\ r = Insert(s, n, <<x>>) /\ Len(r) = Len(s) + 1
         /\ Distinct(r) /\ Members(r) = Members(s) \cup {x}
    BY <2>1, <2>4, RowPut
  <2>6. PICK e : ledger' = [ledger EXCEPT ![w] = Append(L, e)]
    BY <1>4, <2>1, SettleShape DEF Settle
  <2>7. order' = [order EXCEPT ![w] = r]
    BY <1>4, <2>1, <2>2, <2>3, <2>5 DEF Settle
  <2>8. Len(wallets') = Len(wallets)
    BY <1>4, SettleShape DEF Settle, TablesOK
  <2>9. PICK M : M = Append(L, e)
    OBVIOUS
  <2>10. Len(M) = l + 1
    BY <2>2, <2>9
  <2>11. w \in DOMAIN order /\ w \in DOMAIN ledger
    BY DEF TablesOK, OrderInv
  <2>12. /\ order' \in Seq(Seq(EntryIds)) /\ Len(order') = Len(order) /\ DOMAIN order' = DOMAIN order
         /\ order'[w] = r /\ ledger'[w] = M
         /\ \A v \in DOMAIN order \ {w} : order'[v] = order[v] /\ ledger'[v] = ledger[v]
    BY <2>6, <2>7, <2>9, <2>11, ExceptSeq DEF TablesOK, OrderInv
  <2>13. Members(r) = 1..(l+1) /\ Len(r) = l + 1
    <3>1. 1..l \cup {l + 1} = 1..(l+1)
      OBVIOUS
    <3>2. Members(s) = 1..l /\ Len(s) = l
      BY <2>1, <2>2
    <3> QED  BY <2>3, <2>5, <3>1, <3>2
  <2>14. \A v \in DOMAIN order' :
           /\ Distinct(order'[v]) /\ Members(order'[v]) = 1..Len(ledger'[v])
           /\ Len(order'[v]) = Len(ledger'[v])
    <3>1. Distinct(order'[w]) /\ Members(order'[w]) = 1..Len(ledger'[w])
          /\ Len(order'[w]) = Len(ledger'[w])
      BY <2>5, <2>10, <2>12, <2>13
    <3> QED  BY <2>12, <3>1 DEF OrderInv, Entries
  <2> QED  BY <2>8, <2>12, <2>14 DEF OrderInv, Entries
<1>5. ASSUME NEW a \in Auditors, (\E w : ReadBalance(a, w)) \/ ReadSums(a) PROVE OrderInv'
  BY <1>1, <1>5 DEF ReadBalance, ReadSums, openVars, tables
<1>6. ASSUME NEW g \in Readers, (\E w : StartPaging(g, w)) \/ ReadPage(g) PROVE OrderInv'
  BY <1>1, <1>6 DEF StartPaging, ReadPage, openVars, tables
<1>7. CASE UNCHANGED readVars
  BY <1>1, <1>7 DEF readVars, openVars, tables
<1> QED  BY <1>2, <1>3, <1>4, <1>5, <1>6, <1>7 DEF ReadsNext

\* What a reader has is as good after any step.
PagingOK(P, ord) ==
  IF P.phase = "idle" THEN P.seen = <<>> /\ P.cursor = NoEntry
  ELSE P.wallet \in DOMAIN ord /\ GoodPages(P, ord[P.wallet])

LEMMA OwnPaging ==
  ASSUME PagingInv, NEW g \in Readers, NEW P \in PagingRows, PagingOK(P, order),
         paging' = [paging EXCEPT ![g] = P], UNCHANGED order
  PROVE  PagingInv'
<1>1. paging' \in [Readers -> PagingRows]
  BY DEF PagingInv
<1>2. paging'[g] = P /\ \A h \in Readers \ {g} : paging'[h] = paging[h]
  BY DEF PagingInv
<1>3. \A h \in Readers : PagingOK(paging'[h], order')
  BY <1>2 DEF PagingInv, PagingOK
<1> QED  BY <1>1, <1>3 DEF PagingInv, PagingOK

LEMMA StepPagingInv ==
  ASSUME TablesOK, OpenersOK, OrderInv, PagingInv, [ReadsNext]_readVars
  PROVE  PagingInv'
<1>1. ASSUME UNCHANGED <<order, paging>> PROVE PagingInv'
  BY <1>1 DEF PagingInv
<1>2. ASSUME NEW o \in Openers, CreateWallet(o) PROVE PagingInv'
  <2>1. PICK s : order' = Append(order, s) /\ paging' = paging
    BY <1>2 DEF CreateWallet
  <2>2. \A w \in DOMAIN order : w \in DOMAIN order' /\ order'[w] = order[w]
    BY <2>1 DEF OrderInv
  <2> QED  BY <2>1, <2>2 DEF PagingInv
<1>3. ASSUME NEW w \in DOMAIN wallets, NEW d \in Directions, NEW a \in Wagers,
             NEW n \in 0..Len(order[w]), Settle(w, d, a, n)
      PROVE  PagingInv'
  <2>1. PICK s \in Seq(EntryIds) :
          /\ s = order[w] /\ Distinct(s) /\ Members(s) = 1..Len(ledger[w]) /\ w \in DOMAIN order
    BY DEF TablesOK, OrderInv, Entries
  <2>2. PICK l \in Nat : l = Len(ledger[w])
    BY DEF TablesOK
  <2>3. PICK x \in EntryIds : x = l + 1 /\ x \in Nat
    BY DEF EntryIds, NoEntry
  <2>4. x \notin Members(s) /\ n \in 0..Len(s)
    BY <2>1, <2>2, <2>3
  <2>5. PICK r : r = Insert(s, n, <<x>>)
    OBVIOUS
  <2>6. order' = [order EXCEPT ![w] = r] /\ paging' = PagingsPassed(w, n)
    BY <1>3, <2>1, <2>2, <2>3, <2>5 DEF Settle
  <2>7. /\ DOMAIN order' = DOMAIN order /\ order'[w] = r
        /\ \A v \in DOMAIN order \ {w} : order'[v] = order[v]
    BY <2>1, <2>6 DEF OrderInv
  <2>8. ASSUME NEW g \in Readers
        PROVE  paging'[g] \in PagingRows /\ PagingOK(paging'[g], order')
    <3>1. PICK P \in PagingRows : P = paging[g] /\ PagingOK(P, order)
      BY DEF PagingInv, PagingOK
    <3>2. PICK Q : Q = IF g \in Passed(w, n) THEN [P EXCEPT !.late = @ \cup {x}] ELSE P
      OBVIOUS
    <3>3. paging'[g] = Q
      BY <2>2, <2>3, <2>6, <3>1, <3>2 DEF PagingsPassed
    <3>4. /\ Q \in PagingRows /\ Q.phase = P.phase /\ Q.cursor = P.cursor /\ Q.seen = P.seen
          /\ Q.wallet = P.wallet /\ P.late \subseteq Q.late
          /\ g \in Passed(w, n) => x \in Q.late
      <4>1. CASE g \in Passed(w, n)
        <5>1. Q = [P EXCEPT !.late = P.late \cup {x}]
          BY <3>2, <4>1
        <5>2. P.late \cup {x} \in SUBSET Nat
          BY <2>3 DEF PagingRows
        <5> QED  BY <5>1, <5>2 DEF PagingRows
      <4>2. CASE g \notin Passed(w, n)
        BY <3>2, <4>2
      <4> QED  BY <4>1, <4>2
    <3>5. CASE P.phase = "idle"
      BY <3>1, <3>3, <3>4, <3>5 DEF PagingOK
    <3>6. CASE P.phase # "idle" /\ P.wallet # w
      <4>1. Q = P
        BY <3>1, <3>2, <3>6 DEF Passed
      <4>2. P.wallet \in DOMAIN order /\ GoodPages(P, order[P.wallet])
        BY <3>1, <3>6 DEF PagingOK
      <4>3. order'[P.wallet] = order[P.wallet] /\ P.wallet \in DOMAIN order'
        BY <2>7, <3>6, <4>2
      <4> QED  BY <3>3, <3>4, <3>6, <4>1, <4>2, <4>3 DEF PagingOK
    <3>7. CASE P.phase # "idle" /\ P.wallet = w
      <4>1. GoodPages(P, s)
        BY <2>1, <3>1, <3>7 DEF PagingOK
      <4>2. P.phase = "done" \/ (P.cursor # NoEntry /\ n < Place(s, P.cursor)) => x \in Q.late
        BY <2>1, <3>1, <3>4, <3>7 DEF Passed, PositionOf
      <4>3. GoodPages(Q, r)
        BY <2>1, <2>4, <2>5, <3>4, <4>1, <4>2, PagesStand
      <4> QED  BY <2>1, <2>7, <3>3, <3>4, <3>7, <4>3 DEF PagingOK
    <3> QED  BY <3>3, <3>4, <3>5, <3>6, <3>7
  <2>9. paging' \in [Readers -> PagingRows]
    BY <2>6, <2>8 DEF PagingsPassed
  <2> QED  BY <2>8, <2>9 DEF PagingInv, PagingOK
<1>4. ASSUME NEW g \in Readers, NEW w \in DOMAIN wallets, StartPaging(g, w) PROVE PagingInv'
  <2>1. PICK P : P = [NoPages EXCEPT !.phase = "reading", !.wallet = w]
    OBVIOUS
  <2>2. /\ P.phase = "reading" /\ P.wallet = w /\ P.cursor = NoEntry /\ P.seen = <<>>
        /\ P \in PagingRows
    <3>1. w \in Nat
      BY DEF TablesOK
    <3>2. P = [phase |-> "reading", wallet |-> w, cursor |-> NoEntry, seen |-> <<>>, late |-> {}]
      BY <2>1 DEF NoPages
    <3>0. <<>> \in Seq(EntryIds)
      OBVIOUS
    <3>3. PICK none : none = <<>> /\ none \in Seq(EntryIds)
      BY <3>0
    <3>4. P = [phase |-> "reading", wallet |-> w, cursor |-> 0, seen |-> none, late |-> {}]
      BY <3>2, <3>3 DEF NoEntry
    <3>5. P \in PagingRows
      BY <3>1, <3>3, <3>4 DEF PagingRows
    <3> QED  BY <3>2, <3>5
  <2>3. GoodPages(P, order[w])
    BY <2>2 DEF GoodPages, Members
  <2>4. w \in DOMAIN order
    BY DEF OrderInv, TablesOK
  <2>5. paging' = [paging EXCEPT ![g] = P] /\ UNCHANGED order
    BY <1>4, <2>1 DEF StartPaging
  <2> QED  BY <2>2, <2>3, <2>4, <2>5, OwnPaging DEF PagingOK
<1>5. ASSUME NEW g \in Readers, ReadPage(g) PROVE PagingInv'
  <2>1. PICK P \in PagingRows : P = paging[g] /\ P.phase = "reading"
    BY <1>5 DEF ReadPage, PagingInv
  <2>2. PICK w : w = P.wallet /\ w \in DOMAIN order /\ GoodPages(P, order[w])
    BY <2>1 DEF PagingInv
  <2>3. PICK s \in Seq(EntryIds) : s = order[w] /\ Distinct(s)
    BY <2>2 DEF OrderInv
  <2>4. PICK Q : Q = WithPage(P, PageBehind(P, s)) /\ PagesGood(Q, P, s)
    BY <2>1, <2>2, <2>3, PagesContinue
  <2>5. Q \in PagingRows /\ Q.wallet = P.wallet /\ Q.phase # "idle" /\ GoodPages(Q, s)
    BY <2>4 DEF PagesGood
  <2>6. paging' = [paging EXCEPT ![g] = Q] /\ UNCHANGED order
    <3>1. Behind(P, s) = AfterCursor(w, P.cursor)
      BY <2>3 DEF AfterCursor, PositionOf, Behind
    <3>2. /\ paging' = [paging EXCEPT ![g] = WithPage(paging[g], PageBehind(P, s))]
          /\ UNCHANGED order
      <4>1. PICK f : f = Behind(P, s) /\ f = AfterCursor(w, P.cursor)
        BY <3>1
      <4>2. PageBehind(P, s) = SubSeq(order[w], f, IF f + PageSize - 1 < Len(order[w])
                                                   THEN f + PageSize - 1 ELSE Len(order[w]))
        BY <2>3, <4>1 DEF PageBehind, PageEnd
      <4>3. PICK page : page = PageBehind(P, s)
        OBVIOUS
      <4>4. /\ paging' = [paging EXCEPT ![g] = WithPage(@, page)] /\ UNCHANGED order
        BY <1>5, <2>1, <2>2, <4>1, <4>2, <4>3 DEF ReadPage
      <4> QED  BY <4>3, <4>4
    <3> QED  BY <2>1, <2>4, <3>2
  <2>7. PagingOK(Q, order)
    BY <2>2, <2>3, <2>5 DEF PagingOK
  <2> QED  BY <2>5, <2>6, <2>7, OwnPaging
<1>6. ASSUME NEW o \in Openers, UNCHANGED <<order, audit, paging>> PROVE PagingInv'
  BY <1>1, <1>6
<1>7. ASSUME NEW a \in Auditors, (\E w : ReadBalance(a, w)) \/ ReadSums(a) PROVE PagingInv'
  BY <1>1, <1>7 DEF ReadBalance, ReadSums
<1>8. CASE UNCHANGED readVars
  BY <1>1, <1>8 DEF readVars
<1> QED  BY <1>2, <1>3, <1>4, <1>5, <1>6, <1>7, <1>8 DEF ReadsNext

(***************************************************************************)
(* Theorems about reads.                                                    *)
(***************************************************************************)
ReadsInv == TablesOK /\ OpenersOK /\ SumInv /\ AuditInv /\ OrderInv /\ PagingInv

LEMMA AlwaysReadsInv == ReadsSpec => []ReadsInv
<1>1. ReadsInit => ReadsInv
  <2> SUFFICES ASSUME ReadsInit PROVE ReadsInv
    OBVIOUS
  <2>1. TablesOK /\ OpenersOK /\ SumInv
    BY DEF ReadsInit, OpenInit, TablesOK, OpenersOK, SumInv, Phases
  <2>2. AuditInv
    BY DEF ReadsInit, NoAudit, AuditInv, AuditRows, ReconciliationIsExplained, NoWallet
  <2>3. OrderInv
    BY DEF ReadsInit, OpenInit, OrderInv
  <2>4. PagingInv
    <3>1. /\ NoPages \in PagingRows /\ NoPages.phase = "idle"
          /\ NoPages.seen = <<>> /\ NoPages.cursor = NoEntry
      BY DEF NoPages, PagingRows, NoWallet, NoEntry
    <3> QED  BY <3>1 DEF ReadsInit, PagingInv
  <2> QED  BY <2>1, <2>2, <2>3, <2>4 DEF ReadsInv
<1>2. ReadsInv /\ [ReadsNext]_readVars => ReadsInv'
  BY ReadsStepOpens, StepTables, StepOpeners, StepSumInv, StepAuditInv, StepOrderInv, StepPagingInv
     DEF ReadsInv
<1> QED  BY <1>1, <1>2, PTL DEF ReadsSpec

\* The order of a ledger holds each entry once, and a cursor is the last entry its
\* reader was given, whatever openings, wagers and reads interleave.
THEOREM AlwaysReadsTypeOK == ReadsSpec => []ReadsTypeOK
<1>1. ReadsInv => ReadsTypeOK
  <2> SUFFICES ASSUME ReadsInv PROVE ReadsTypeOK
    OBVIOUS
  <2>1. \A a \in Auditors : audit[a] \in AuditRows
    BY DEF ReadsInv, AuditInv
  <2>2. \A g \in Readers :
          /\ paging[g] \in PagingRows
          /\ paging[g].cursor = IF paging[g].seen = <<>> THEN NoEntry ELSE LastRow(paging[g].seen)
    BY DEF ReadsInv, PagingInv, GoodPages
  <2> QED  BY <2>1, <2>2 DEF ReadsInv, OrderInv, ReadsTypeOK, AuditRows, PagingRows
<1> QED  BY <1>1, AlwaysReadsInv, PTL

\* However many wagers are settled between the two reads of a reconciliation, its
\* answer differs from the truth by just those.
THEOREM AlwaysReconciliationIsExplained == ReadsSpec => []ReconciliationIsExplained
<1>1. ReadsInv => ReconciliationIsExplained
  BY DEF ReadsInv, AuditInv
<1> QED  BY <1>1, AlwaysReadsInv, PTL

\* For any page size: pages read while entries arrive never repeat an entry and keep
\* the order of the ledger.
THEOREM AlwaysPagesDoNotOverlap == ReadsSpec => []PagesDoNotOverlap
<1>1. ReadsInv => PagesDoNotOverlap
  <2> SUFFICES ASSUME ReadsInv, NEW g \in Readers, NEW i \in DOMAIN paging[g].seen,
                      NEW j \in DOMAIN paging[g].seen, i < j
               PROVE  /\ PositionOf(paging[g].wallet, paging[g].seen[i])
                           < PositionOf(paging[g].wallet, paging[g].seen[j])
    BY DEF PagesDoNotOverlap
  <2>1. paging[g].phase # "idle"
    BY DEF ReadsInv, PagingInv
  <2>2. GoodPages(paging[g], order[paging[g].wallet])
    BY <2>1 DEF ReadsInv, PagingInv
  <2> QED  BY <2>2 DEF GoodPages, PositionOf
<1> QED  BY <1>1, AlwaysReadsInv, PTL

\* For any page size: a client that follows the cursor to the end misses only entries
\* that were committed meanwhile with a stamp before its cursor, or afterwards.
THEOREM AlwaysSkippedOnlyIfLate == ReadsSpec => []SkippedOnlyIfLate
<1>1. ReadsInv => SkippedOnlyIfLate
  <2> SUFFICES ASSUME ReadsInv, NEW g \in Readers, paging[g].phase = "done"
               PROVE  Entries(paging[g].wallet) \subseteq Members(paging[g].seen) \cup paging[g].late
    BY DEF SkippedOnlyIfLate
  <2>1. /\ paging[g].wallet \in DOMAIN order
        /\ GoodPages(paging[g], order[paging[g].wallet])
    BY DEF ReadsInv, PagingInv
  <2>2. Members(order[paging[g].wallet]) = Entries(paging[g].wallet)
    BY <2>1 DEF ReadsInv, OrderInv
  <2> QED  BY <2>1, <2>2 DEF GoodPages
<1> QED  BY <1>1, AlwaysReadsInv, PTL
=============================================================================

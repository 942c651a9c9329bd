--------------------------- MODULE MCProcessWager ---------------------------
(***************************************************************************)
(* Small instances of ProcessWager: sets of inputs chosen so that every      *)
(* branch of Execute is taken and the callers interfere.  Identifiers are    *)
(* strings; the processes are model values, so that they can be permuted.    *)
(***************************************************************************)
EXTENDS ProcessWagerProperties, TLC

Symmetric == Permutations(Processes)

MCKeys == {"k1", "k2", "k3", "k4", "k5"}
MCExts == {"e1", "e2", "e3", "e4", "e5"}
MCProviders == {"acme", "zeta"}
MCPlayers == {"alice", "bob"}
MCCurrencies == {"BRL", "USD"}

OneWallet == {"w1"}
TwoWallets == {"w1", "w2"}
NoWallet == {"w9"}
AllAlice == [w \in Wallets |-> "alice"]
AliceAndBob == "w1" :> "alice" @@ "w2" :> "bob"
AllReais == [w \in Wallets |-> "BRL"]
ReaisAndDollars == "w1" :> "BRL" @@ "w2" :> "USD"
Five == [w \in Wallets |-> 5]
FiveAndZero == "w1" :> 5 @@ "w2" :> 0

\* An input about player alice's wallet w1 in BRL.
Wager(key, ext, kind, amount, reference) ==
  [key |-> key, ext |-> ext, provider |-> "acme", wallet |-> "w1",
   player |-> "alice", currency |-> "BRL", kind |-> kind, amount |-> amount,
   ref |-> reference]

\* Two bets of which the balance pays one, a win that may overflow, a loss, a key
\* sent again with another payload, an external id sent again under another key.
Bets ==
  {Wager("k1", "e1", "BET", 4, NoRef), Wager("k2", "e2", "BET", 4, NoRef),
   Wager("k3", "e3", "WIN", 7, NoRef), Wager("k4", "e4", "LOSS", 0, NoRef),
   Wager("k1", "e5", "BET", 1, NoRef), Wager("k5", "e2", "BET", 4, NoRef)}

\* A bet, its refund sent under two keys and once with a wrong amount, and the
\* rollback of the first refund.
Refunds ==
  {Wager("k1", "e1", "BET", 3, NoRef), Wager("k2", "e2", "REFUND", 3, "e1"),
   Wager("k3", "e3", "REFUND", 3, "e1"), Wager("k3", "e3", "REFUND", 2, "e1"),
   Wager("k5", "e5", "ROLLBACK", 3, "e2")}

\* A win and its rollback under two keys, a bet that may empty the wallet in
\* between, and its rollback.
Rollbacks ==
  {Wager("k1", "e1", "WIN", 3, NoRef), Wager("k2", "e2", "ROLLBACK", 3, "e1"),
   Wager("k3", "e3", "ROLLBACK", 3, "e1"), Wager("k4", "e4", "BET", 7, NoRef),
   Wager("k5", "e5", "ROLLBACK", 7, "e4")}

\* References nothing can be done with: a loss, a rollback, a refused bet, the
\* reversal itself.
BadReferences ==
  {Wager("k1", "e1", "LOSS", 0, NoRef), Wager("k2", "e2", "ROLLBACK", 1, "e1"),
   Wager("k3", "e3", "BET", 6, NoRef), Wager("k4", "e4", "REFUND", 6, "e3"),
   Wager("k5", "e5", "ROLLBACK", 1, "e5")}

\* Two wallets in two currencies: one key and one external id used on both, a
\* rollback whose reference may be in the other wallet, a refund of that external
\* id and a loss under the rollback's key, and inputs that Execute refuses without
\* leaving a row.
Strangers ==
  {Wager("k1", "e1", "BET", 2, NoRef),
   [Wager("k1", "e2", "WIN", 2, NoRef) EXCEPT !.wallet = "w2", !.currency = "USD"],
   [Wager("k2", "e1", "WIN", 3, NoRef) EXCEPT !.wallet = "w2", !.currency = "USD"],
   [Wager("k3", "e3", "ROLLBACK", 2, "e1") EXCEPT !.wallet = "w2", !.currency = "USD"],
   Wager("k3", "e3", "REFUND", 2, "e1"),
   Wager("k3", "e3", "LOSS", 0, NoRef),
   [Wager("k4", "e4", "BET", 1, NoRef) EXCEPT !.wallet = "w9"],
   [Wager("k4", "e4", "BET", 1, NoRef) EXCEPT !.player = "bob"],
   Wager("k4", "e4", "OPENING", 1, NoRef)}

\* A bet and both kinds of reversal of it.
RefundAndRollback ==
  {Wager("k1", "e1", "BET", 3, NoRef), Wager("k2", "e2", "REFUND", 3, "e1"),
   Wager("k3", "e3", "ROLLBACK", 3, "e1")}

\* A bet of alice and two refunds of it, one to her wallet and one to bob's.
RefundElsewhere ==
  {Wager("k1", "e1", "BET", 3, NoRef), Wager("k2", "e2", "REFUND", 3, "e1"),
   [Wager("k3", "e3", "REFUND", 3, "e1") EXCEPT !.wallet = "w2", !.player = "bob"]}

\* A refund sent by everybody, before and after its bet.
ContendedRefund ==
  {Wager("k1", "e1", "BET", 3, NoRef), Wager("k2", "e2", "REFUND", 3, "e1")}
=============================================================================

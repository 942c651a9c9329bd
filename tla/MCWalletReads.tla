---------------------------- MODULE MCWalletReads ----------------------------
(***************************************************************************)
(* Small instances of WalletReads: one player, one currency, word -10..9.   *)
(***************************************************************************)
EXTENDS WalletReads, TLC

Symmetric == Permutations(Openers)

Opening(currency, cents) ==
  [player |-> "alice", currency |-> currency,
   balance |-> [units |-> cents, places |-> 2]]

Spellings == "BRL" :> "BRL" @@ "brl" :> "BRL"

\* A wallet with five cents, an empty one, a code in lower case, a balance that
\* wraps below zero and one that wraps to one cent.
MCOpenings ==
  {Opening("BRL", 5), Opening("BRL", 0), Opening("brl", 5),
   Opening("BRL", 13), Opening("BRL", 21)}
\* Five cents out and in again: the sum of the credits no longer fits the word.
MCWagers == {5}
TwoOpenings == {Opening("BRL", 5)}
=============================================================================

-------------------------- MODULE MCOutboxPublisher --------------------------
(***************************************************************************)
(* A small instance of OutboxPublisher: a bet with two events, and another   *)
(* transaction with one; batches of two.                                     *)
(***************************************************************************)
EXTENDS OutboxPublisher, TLC

MCEvents == {"processed", "changed", "rejected"}
MCTransactions == {"bet", "refused"}
MCEmitted == "bet" :> <<"processed", "changed">> @@ "refused" :> <<"rejected">>
=============================================================================

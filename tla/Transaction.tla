---------------------------- MODULE Transaction ----------------------------
(***************************************************************************)
(* The vocabulary of a wager transaction: its kinds, its statuses, the       *)
(* stable failure codes and what makes an input well formed                  *)
(* (internal/domain/transaction/{kind,status,transaction}.go).               *)
(***************************************************************************)
EXTENDS Integers

Kinds == {"OPENING", "BET", "WIN", "LOSS", "REFUND", "ROLLBACK"}

\* RequiresReference: the kinds that undo another transaction.
Reversals == {"REFUND", "ROLLBACK"}

Statuses == {"PENDING", "PENDING_REFERENCE", "PROCESSED", "REJECTED", "FAILED"}

\* The codes process_wager.go gives a rejected transaction.
FailureCodes ==
  {"INSUFFICIENT_BALANCE", "INSUFFICIENT_BALANCE_REVERSAL",
   "REFERENCE_NOT_FOUND", "REFERENCE_ALREADY_REVERSED", "AMOUNT_MISMATCH"}

\* Mutant: a ROLLBACK refuses only another rollback.
AnyButRollback(kind) == IF kind = "REFUND" THEN {"BET"} ELSE {"BET", "WIN", "REFUND", "LOSS"}
\* The kinds a reversal may undo: a REFUND only a BET, a ROLLBACK anything that
\* moved money for a provider.  (An OPENING has no provider and no external id,
\* so no reference finds it.)
ReversibleBy(kind) ==
  IF kind = "REFUND" THEN {"BET"} ELSE {"BET", "WIN", "REFUND"}

\* NewWagerTransaction's checks on kind, reference and amount.
WellFormed(kind, amount, hasReference) ==
  /\ kind \in Kinds \ {"OPENING"}
  /\ kind \in Reversals => hasReference
  /\ IF kind = "LOSS" THEN amount = 0 ELSE amount > 0
=============================================================================

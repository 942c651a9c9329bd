------------------------ MODULE MCPendingReferences ------------------------
(***************************************************************************)
(* Small instances of PendingReferences, with the inputs of MCProcessWager. *)
(***************************************************************************)
EXTENDS PendingReferences, MCProcessWager

\* The keys of RefundAndRollback.
ThreeKeys == {"k1", "k2", "k3"}
=============================================================================

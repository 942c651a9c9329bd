----------------------- MODULE PendingReferencesProofs -----------------------
(***************************************************************************)
(* The worker of PendingReferences adds no behaviour to ProcessWager, so what *)
(* is proved of ProcessWager holds of the service with its worker; and what a *)
(* retry meets is always the row it was fetched for.                         *)
(***************************************************************************)
EXTENDS PendingReferences, ProcessWagerInvariants, RowLemmas

\* Only postponed rows are due or fetched, and none is due twice.
OnlyPostponed ==
  /\ due \in Seq(Nat) /\ Distinct(due) /\ Members(due) \subseteq Postponed
  /\ batch \subseteq Postponed

\* A retry carries a postponed row's input to Execute and never gets past the
\* fast path.
RetriesStayOutside ==
  \A p \in Workers :
    /\ pc[p] \in {"idle", "lookup", "answered"}
    /\ pc[p] = "lookup" => \E t \in Postponed : req[p] = txs[t].req

WorkerInv == ClaimInv /\ OnlyPostponed /\ RetriesStayOutside /\ RetriesMeetTheirRow

(***************************************************************************)
(* Refinement.                                                              *)
(***************************************************************************)
\* Every step of the service with its worker is one of ProcessWager, or leaves
\* its variables alone: the input of a retry is one that some caller sent.
LEMMA PendingStepIsNext ==
  ASSUME TypeOK, [PendingNext]_pendingVars
  PROVE  [Next]_vars
<1>1. CASE ExecuteStep
  BY <1>1 DEF ExecuteStep, Next, Callers
<1>2. ASSUME NEW p \in Workers, NEW t \in DOMAIN txs, Retry(p, t) PROVE [Next]_vars
  <2>1. p \in Processes
    BY WorkersAssumption
  <2>2. txs[t] \in Row
    BY <1>2 DEF TypeOK, DbTypeOK
  <2>3. txs[t].req \in Requests
    BY <2>2 DEF Row
  <2> QED  BY <1>2, <2>1, <2>3 DEF Retry, RetryInput, Next
<1>3. ASSUME NEW t \in DOMAIN txs, Expire(t) PROVE UNCHANGED vars
  BY <1>3 DEF Expire
<1>4. CASE FetchPending \/ LoseBatch \/ UNCHANGED pendingVars
  BY <1>4 DEF FetchPending, LoseBatch, pendingVars
<1> QED  BY <1>1, <1>2, <1>3, <1>4 DEF PendingNext

(***************************************************************************)
(* What Execute does to the rows and to a retry.                            *)
(***************************************************************************)
\* The fast path of a retry finds the row it was fetched for, and no other.
LEMMA RetryFindsItsRow ==
  ASSUME ClaimInv, NEW t \in DOMAIN txs
  PROVE  FindByIdempotencyKey(txs[t].req.key) = t
<1> DEFINE rows == {i \in DOMAIN txs : txs[i].req.key = txs[t].req.key}
<1>1. rows = {t}
  BY DEF ClaimInv, ClaimedOnce
<1>2. TheRow(rows) = t
  BY <1>1 DEF TheRow
<1> QED  BY <1>2 DEF FindByIdempotencyKey

\* The step of a retry is its lookup, and the answer is its postponed row.
LEMMA RetryIsAnswered ==
  ASSUME WorkerInv, NEW p \in Workers, Step(p)
  PROVE  /\ pc'[p] = "answered" /\ req' = req /\ UNCHANGED db
         /\ out'[p].error = "none" /\ out'[p].replay
         /\ out'[p].tx \in Postponed /\ txs[out'[p].tx].req = req[p]
<1>1. p \in Processes /\ pc[p] \in {"idle", "lookup", "answered"}
  BY WorkersAssumption DEF WorkerInv, RetriesStayOutside
<1>2. Lookup(p) /\ pc[p] = "lookup"
  BY <1>1 DEF Step, Lookup, Begin, LockWallet, TryCreate, AnswerRaced, ProcessBet,
              ProcessWin, ProcessLoss, FindReference, FindReversal,
              MarkPendingReference, RefuseReversal, SettleRefund, SettleRollback
<1>3. PICK t \in Postponed : req[p] = txs[t].req
  BY <1>2 DEF WorkerInv, RetriesStayOutside
<1>4. t \in DOMAIN txs /\ t # NoTx
  BY <1>3 DEF Postponed, WorkerInv, ClaimInv, LockInv, TypeOK, DbTypeOK, NoTx
<1>5. FindByIdempotencyKey(req[p].key) = t
  BY <1>3, <1>4, RetryFindsItsRow DEF WorkerInv
<1>6. HandleExisting(p, t)
  BY <1>2, <1>4, <1>5 DEF Lookup
<1>7. /\ Answer(p, Output(t, txs[t].status, txs[t].result, txs[t].code, TRUE))
      /\ UNCHANGED db
  BY <1>3, <1>6 DEF HandleExisting
<1>8. /\ pc' = [pc EXCEPT ![p] = "answered"] /\ req' = req
      /\ out' = [out EXCEPT ![p] = Output(t, txs[t].status, txs[t].result, txs[t].code, TRUE)]
  BY <1>7 DEF Answer, Goto
<1>9. /\ pc'[p] = "answered"
      /\ out'[p] = Output(t, txs[t].status, txs[t].result, txs[t].code, TRUE)
  BY <1>1, <1>8 DEF WorkerInv, ClaimInv, LockInv, TypeOK, ProcessTypeOK
<1> QED  BY <1>3, <1>7, <1>8, <1>9 DEF Output

(***************************************************************************)
(* The invariant.                                                           *)
(***************************************************************************)
\* A fetch takes rows that were due, and leaves rows that were due, none of them twice.
LEMMA FetchTakesDue ==
  ASSUME due \in Seq(Nat), Distinct(due)
  PROVE  /\ SubSeq(due, Fetched + 1, Len(due)) \in Seq(Nat)
         /\ Distinct(SubSeq(due, Fetched + 1, Len(due)))
         /\ Members(SubSeq(due, Fetched + 1, Len(due))) \subseteq Members(due)
         /\ Members(SubSeq(due, 1, Fetched)) \subseteq Members(due)
<1>1. Fetched \in 0..Len(due)
  BY BatchAssumption DEF Fetched
<1>2. \A m, n \in Nat : 1 <= m /\ n <= Len(due) =>
        /\ SubSeq(due, m, n) \in Seq(Nat)
        /\ Members(SubSeq(due, m, n)) \subseteq Members(due)
  BY DEF Members
<1>3. PICK k \in Nat : k = Fetched /\ k <= Len(due)
  BY <1>1
<1>4. PICK r \in Seq(Nat) : r = SubSeq(due, k + 1, Len(due))
  <2>1. SubSeq(due, k + 1, Len(due)) \in Seq(Nat)
    BY <1>2, <1>3
  <2> QED  BY <2>1
<1>5. Len(r) = Len(due) - k /\ \A i \in 1..Len(r) : r[i] = due[i + k]
  BY <1>3, <1>4
<1>6. Distinct(r)
  <2> SUFFICES ASSUME NEW i \in 1..Len(r), NEW j \in 1..Len(r), r[i] = r[j] PROVE i = j
    BY DEF Distinct
  <2>1. i + k \in DOMAIN due /\ j + k \in DOMAIN due
    BY <1>3, <1>5
  <2>2. i + k = j + k
    BY <1>5, <2>1 DEF Distinct
  <2> QED  BY <1>3, <2>2
<1> QED  BY <1>1, <1>2, <1>3, <1>4, <1>6

\* The worker's own steps.
LEMMA WorkerStepInv ==
  ASSUME WorkerInv,
         \/ FetchPending \/ LoseBatch
         \/ \E t \in DOMAIN txs : Expire(t) \/ \E p \in Workers : Retry(p, t)
  PROVE  OnlyPostponed' /\ RetriesStayOutside' /\ RetriesMeetTheirRow'
<1> USE DEF WorkerInv
<1>1. txs' = txs /\ Postponed' = Postponed
  BY DEF FetchPending, LoseBatch, Expire, Retry, Receive, db, vars, Postponed
<1>2. CASE FetchPending
  <2>1. OnlyPostponed'
    <3>1. Members(due') = Members(SubSeq(due, Fetched + 1, Len(due)))
      BY <1>2 DEF FetchPending, Members
    <3>2. Distinct(due')
      BY <1>2, FetchTakesDue DEF FetchPending, OnlyPostponed
    <3> QED  BY <1>1, <1>2, <3>1, <3>2, FetchTakesDue DEF FetchPending, OnlyPostponed, Distinct
  <2>2. pc' = pc /\ req' = req /\ out' = out
    BY <1>2 DEF FetchPending, vars
  <2>3. RetriesStayOutside' /\ RetriesMeetTheirRow'
    BY <1>1, <2>2 DEF RetriesStayOutside, RetriesMeetTheirRow
  <2> QED  BY <2>1, <2>3
<1>3. CASE LoseBatch
  BY <1>1, <1>3 DEF LoseBatch, OnlyPostponed, RetriesStayOutside,
     RetriesMeetTheirRow, Members, vars
<1>4. ASSUME NEW t \in DOMAIN txs, Expire(t)
      PROVE  OnlyPostponed' /\ RetriesStayOutside' /\ RetriesMeetTheirRow'
  <2>1. t \in Nat /\ t \in Postponed
    BY <1>4 DEF Expire, ClaimInv, LockInv, TypeOK, DbTypeOK
  <2>2. due' \in Seq(Nat) /\ Distinct(due') /\ Members(due') = Members(due) \cup {t}
    BY <1>4, <2>1, RowAppended DEF Expire, OnlyPostponed
  <2> QED  BY <1>1, <1>4, <2>1, <2>2 DEF Expire, OnlyPostponed, RetriesStayOutside,
              RetriesMeetTheirRow, Members, vars
<1>5. ASSUME NEW t \in DOMAIN txs, NEW p \in Workers, Retry(p, t)
      PROVE  OnlyPostponed' /\ RetriesStayOutside' /\ RetriesMeetTheirRow'
  <2>1. /\ t \in Postponed /\ due' = due /\ batch' \subseteq batch
        /\ pc' = [pc EXCEPT ![p] = "lookup"] /\ req' = [req EXCEPT ![p] = txs[t].req]
        /\ out' = [out EXCEPT ![p] = Null]
    BY <1>5 DEF Retry, RetryInput, Receive, Goto, OnlyPostponed
  <2>2. pc'[p] = "lookup" /\ req'[p] = txs[t].req
    BY <2>1, WorkersAssumption DEF ClaimInv, LockInv, TypeOK, ProcessTypeOK
  <2>3. \A q \in Workers \ {p} : pc'[q] = pc[q] /\ req'[q] = req[q] /\ out'[q] = out[q]
    BY <2>1, WorkersAssumption DEF ClaimInv, LockInv, TypeOK, ProcessTypeOK
  <2>4. OnlyPostponed'
    BY <1>1, <2>1 DEF OnlyPostponed, Members
  <2> QED  BY <1>1, <2>1, <2>2, <2>3, <2>4 DEF RetriesStayOutside, RetriesMeetTheirRow
<1> QED  BY <1>2, <1>3, <1>4, <1>5

\* Execute, in callers and in retries.
LEMMA ExecuteStepInv ==
  ASSUME WorkerInv, ExecuteStep
  PROVE  OnlyPostponed' /\ RetriesStayOutside' /\ RetriesMeetTheirRow'
<1> USE WorkersAssumption DEF WorkerInv, ClaimInv, LockInv, TypeOK, ProcessTypeOK
<1>1. due' = due /\ batch' = batch
  BY DEF ExecuteStep
<1>2. ASSUME NEW p \in Processes, pc'[p] = "idle" \/ p \notin Workers, txs' = txs,
             \A q \in Processes : q # p => pc'[q] = pc[q] /\ req'[q] = req[q] /\ out'[q] = out[q]
      PROVE  OnlyPostponed' /\ RetriesStayOutside' /\ RetriesMeetTheirRow'
  <2>1. Postponed' = Postponed
    BY <1>2 DEF Postponed
  <2>2. OnlyPostponed'
    BY <1>1, <2>1 DEF OnlyPostponed, Members
  <2>3. \A q \in Workers :
          \/ pc'[q] = "idle"
          \/ pc'[q] = pc[q] /\ req'[q] = req[q] /\ out'[q] = out[q]
    BY <1>2, WorkersAssumption
  <2>4. RetriesStayOutside' /\ RetriesMeetTheirRow'
    BY <1>2, <2>1, <2>3 DEF RetriesStayOutside, RetriesMeetTheirRow
  <2> QED  BY <2>2, <2>4
<1>3. ASSUME NEW p \in Callers, NEW r \in Requests, Receive(p, r)
      PROVE  OnlyPostponed' /\ RetriesStayOutside' /\ RetriesMeetTheirRow'
  BY <1>2, <1>3 DEF Receive, Goto, db, Callers
<1>4. ASSUME NEW p \in Processes, Fail(p)
      PROVE  OnlyPostponed' /\ RetriesStayOutside' /\ RetriesMeetTheirRow'
  BY <1>2, <1>4 DEF Fail, Goto, db
<1>5. ASSUME NEW p \in Processes, Step(p)
      PROVE  OnlyPostponed' /\ RetriesStayOutside' /\ RetriesMeetTheirRow'
  <2>1. /\ \A i \in DOMAIN txs : i \in DOMAIN txs' /\ txs'[i] = txs[i]
        /\ req' = req
        /\ \A q \in Processes : q # p => pc'[q] = pc[q] /\ out'[q] = out[q]
    BY <1>5, StepKeepsRows DEF Own
  <2>2. \A t \in Postponed : t \in Postponed' /\ txs'[t] = txs[t]
    BY <2>1 DEF Postponed
  <2>3. OnlyPostponed'
    BY <1>1, <2>2 DEF OnlyPostponed, Members
  <2>4. p \in Workers =>
          /\ pc'[p] = "answered" /\ out'[p].error = "none" /\ out'[p].replay
          /\ out'[p].tx \in Postponed /\ txs[out'[p].tx].req = req[p]
    BY <1>5, RetryIsAnswered
  <2>5. RetriesStayOutside'
    BY <2>1, <2>2, <2>4 DEF RetriesStayOutside
  <2>6. RetriesMeetTheirRow'
    BY <2>1, <2>2, <2>4 DEF RetriesMeetTheirRow
  <2> QED  BY <2>3, <2>5, <2>6
<1> QED  BY <1>3, <1>4, <1>5 DEF ExecuteStep

\* The invariant is inductive.
LEMMA NextWorkerInv == WorkerInv /\ [PendingNext]_pendingVars => WorkerInv'
<1> SUFFICES ASSUME WorkerInv, [PendingNext]_pendingVars PROVE WorkerInv'
  OBVIOUS
<1>1. ClaimInv'
  BY PendingStepIsNext, NextClaimInv DEF WorkerInv, ClaimInv, LockInv
<1>2. CASE UNCHANGED pendingVars
  BY <1>1, <1>2 DEF pendingVars, vars, WorkerInv, OnlyPostponed, Members, Postponed,
     RetriesStayOutside, RetriesMeetTheirRow
<1>3. CASE PendingNext
  BY <1>1, <1>3, WorkerStepInv, ExecuteStepInv DEF PendingNext, WorkerInv
<1> QED  BY <1>2, <1>3

LEMMA InitWorkerInv == PendingInit => WorkerInv
<1>1. PendingInit => OnlyPostponed /\ RetriesStayOutside /\ RetriesMeetTheirRow
  BY WorkersAssumption DEF PendingInit, Init, OnlyPostponed, Members, Distinct,
     RetriesStayOutside, RetriesMeetTheirRow
<1> QED  BY <1>1, InitClaimInv DEF PendingInit, WorkerInv

LEMMA AlwaysWorkerInv == PendingSpec => []WorkerInv
  BY InitWorkerInv, NextWorkerInv, PTL DEF PendingSpec

\* What the worker fetches: for every batch size, what is due or fetched is a
\* postponed row, and no row is due twice.
THEOREM AlwaysPendingTypeOK == PendingSpec => []PendingTypeOK
<1>1. WorkerInv => PendingTypeOK
  <2> SUFFICES ASSUME WorkerInv PROVE PendingTypeOK
    OBVIOUS
  <2>1. due \in Seq(Postponed)
    BY DEF WorkerInv, OnlyPostponed, Members
  <2>2. Cardinality(Members(due)) = Len(due)
    BY RowsAreCounted DEF WorkerInv, OnlyPostponed
  <2> QED  BY <2>1, <2>2 DEF PendingTypeOK, WorkerInv, OnlyPostponed, ClaimInv, LockInv
<1> QED  BY <1>1, AlwaysWorkerInv, PTL

\* With any number of workers, batch size and losses, the service behaves like
\* callers of Execute alone: every theorem about Spec holds of it.
THEOREM PendingActsAsACaller == PendingSpec => ActsAsACaller
<1>1. PendingInit => Init
  BY DEF PendingInit
<1>2. WorkerInv /\ [PendingNext]_pendingVars => [Next]_vars
  BY PendingStepIsNext DEF WorkerInv, ClaimInv, LockInv
<1> QED  BY <1>1, <1>2, AlwaysWorkerInv, PTL DEF PendingSpec, Spec, ActsAsACaller

\* No retry of any postponed wager ever commits, moves money or conflicts: it is
\* answered with the row it was fetched for, still postponed.
THEOREM AlwaysRetriesMeetTheirRow == PendingSpec => []RetriesMeetTheirRow
<1>1. WorkerInv => RetriesMeetTheirRow
  BY DEF WorkerInv
<1> QED  BY <1>1, AlwaysWorkerInv, PTL
=============================================================================

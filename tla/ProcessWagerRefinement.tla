------------------------ MODULE ProcessWagerRefinement ------------------------
(***************************************************************************)
(* While references stay in their wallet, the concurrent use case implements *)
(* the atomic one, for every set of callers and requests.                    *)
(***************************************************************************)
EXTENDS ProcessWagerInvariants

(***************************************************************************)
(* What a process knows when it settles.                                    *)
(***************************************************************************)
\* r has passed the checks on its wallet.
Admitted(r) ==
  r.wallet \in Wallets /\ Owner[r.wallet] = r.player /\ Currency[r.wallet] = r.currency

Final == {"PROCESSED", "REJECTED", "PENDING_REFERENCE"}

AdmittedInv ==
  /\ \A p \in Processes : pc[p] \in LockHeld => Admitted(req[p])
  /\ \A t \in DOMAIN txs : Admitted(txs[t].req) /\ txs[t].status \in Final

\* Row i is the one that r names.
Names(r, i) == txs[i].req.provider = r.provider /\ txs[i].req.ext = r.ref

\* Verdict v on reversal r and the row i it found is what the rows say.
VerdictHolds(r, v, i) ==
  /\ r.kind \in Reversals /\ v \in {"postpone", "move"} \cup Refusals
  /\ v = "postpone" =>
       \A t \in DOMAIN txs : Names(r, t) => txs[t].status = "PENDING_REFERENCE"
  /\ v = "REFERENCE_NOT_FOUND" =>
       \E t \in DOMAIN txs :
         /\ Names(r, t)
         /\ \/ txs[t].status = "REJECTED"
            \/ txs[t].status = "PROCESSED" /\ txs[t].req.kind \notin ReversibleBy(r.kind)
  /\ v \in {"REFERENCE_ALREADY_REVERSED", "AMOUNT_MISMATCH", "move"} => RefersTo(r, i)
  /\ v = "REFERENCE_ALREADY_REVERSED" => ~NotReversed(r)
  /\ v \in {"AMOUNT_MISMATCH", "move"} => NotReversed(r)
  /\ v = "AMOUNT_MISMATCH" => r.kind = "REFUND" /\ r.amount # txs[i].req.amount
  /\ v = "move" => AmountAgrees(r, i)

VerdictsStand ==
  \A p \in Processes :
    /\ pc[p] = "reversal" => req[p].kind \in Reversals
    /\ pc[p] = "settle" => VerdictHolds(req[p], verdict[p], ref[p])

AtomicInv == ClaimInv /\ ReversalInv /\ AdmittedInv /\ VerdictsStand

\* The actions that write, and the row each of them appends.
LEMMA NewStatus ==
  ASSUME NEW p \in Processes, Step(p), txs' # txs
  PROVE  \E row : txs' = Append(txs, row) /\ row.status \in Final
<1>1. ASSUME NEW r, NEW s \in Final, NEW c, NEW b, NEW x,
             txs' = Append(txs, TxRow(r, s, c, b, x))
      PROVE  \E row : txs' = Append(txs, row) /\ row.status \in Final
  <2>1. TxRow(r, s, c, b, x).status = s
    BY DEF TxRow
  <2> QED  BY <1>1, <2>1
<1>2. ASSUME NEW code, RejectTransaction(p, code)
      PROVE  \E row : txs' = Append(txs, row) /\ row.status \in Final
  <2>1. "REJECTED" \in Final
    BY DEF Final
  <2> QED  BY <1>1, <1>2, <2>1 DEF RejectTransaction
<1>3. ASSUME NEW direction, NEW amount, CommitSuccess(p, direction, amount)
      PROVE  \E row : txs' = Append(txs, row) /\ row.status \in Final
  <2>1. "PROCESSED" \in Final
    BY DEF Final
  <2> QED  BY <1>1, <1>3, <2>1 DEF CommitSuccess, Abort, db
<1>4. ASSUME NEW amount, Credit(p, amount)
      PROVE  \E row : txs' = Append(txs, row) /\ row.status \in Final
  BY <1>3, <1>4 DEF Credit, Abort, db
<1>5. ASSUME NEW amount, NEW code, Debit(p, amount, code)
      PROVE  \E row : txs' = Append(txs, row) /\ row.status \in Final
  BY <1>2, <1>3, <1>5 DEF Debit
<1>6. CASE ProcessLoss(p) \/ MarkPendingReference(p)
  <2>1. {"PROCESSED", "PENDING_REFERENCE"} \subseteq Final
    BY DEF Final
  <2> QED  BY <1>1, <1>6, <2>1 DEF ProcessLoss, MarkPendingReference
<1>7. CASE \/ Lookup(p) \/ Begin(p) \/ LockWallet(p) \/ TryCreate(p) \/ AnswerRaced(p)
           \/ FindReference(p) \/ FindReversal(p)
  BY <1>7 DEF Lookup, Begin, LockWallet, TryCreate, AnswerRaced, FindReference, FindReversal,
     HandleExisting, Abort, db
<1>8. CASE ProcessBet(p) \/ ProcessWin(p) \/ SettleRefund(p)
  BY <1>4, <1>5, <1>8 DEF ProcessBet, ProcessWin, SettleRefund
<1>9. CASE RefuseReversal(p) \/ SettleRollback(p)
  BY <1>2, <1>4, <1>5, <1>9 DEF RefuseReversal, SettleRollback, Abort, db
<1> QED  BY <1>6, <1>7, <1>8, <1>9 DEF Step

\* Whoever holds a lock has been admitted, and only holders commit.
LEMMA NextAdmitted ==
  ASSUME LockInv, AdmittedInv, [Next]_vars
  PROVE  AdmittedInv'
<1>1. ASSUME NEW p \in Processes, Step(p), NEW q \in Processes, pc'[q] \in LockHeld
      PROVE  Admitted(req'[q])
  <2>1. req' = req /\ (q # p => pc'[q] = pc[q])
    BY <1>1, StepKeepsRows DEF Own, LockInv, TypeOK, ProcessTypeOK
  <2>2. CASE pc[q] \in LockHeld
    BY <2>1, <2>2 DEF AdmittedInv
  <2>3. CASE pc[q] \notin LockHeld
    <3>1. p = q
      BY <1>1, <2>1, <2>3
    <3>2. Locks(p)
      BY <1>1, <2>3, <3>1, StepShape
      DEF LockInv, Quiet, Claims, Records, Pays, PaysEntry, Commits, LockHeld, Inserted
    <3>3. LockWallet(p)
      BY <1>1, <3>2 DEF Locks, Step, Lookup, Begin, TryCreate, AnswerRaced, ProcessBet,
         ProcessWin, ProcessLoss, FindReference, FindReversal, MarkPendingReference,
         RefuseReversal, SettleRefund, SettleRollback
    <3>4. pc'[p] # "answered"
      BY <3>2 DEF Locks
    <3>5. \A e : ~Abort(p, e)
      BY <3>4 DEF Abort, Answer, Goto, LockInv, TypeOK, ProcessTypeOK
    <3> QED  BY <2>1, <3>1, <3>3, <3>5 DEF LockWallet, Admitted
  <2> QED  BY <2>2, <2>3
<1>2. ASSUME NEW p \in Processes, Step(p), NEW t \in DOMAIN txs'
      PROVE  Admitted(txs'[t].req) /\ txs'[t].status \in Final
  <2>1. CASE txs' = txs
    BY <2>1 DEF AdmittedInv
  <2>2. CASE txs' # txs
    <3>1. PICK row \in Row :
            /\ txs' = Append(txs, row) /\ row.req = req[p] /\ pc[p] \in Inserted
      BY <1>2, <2>2, NewRow
    <3>2. PICK r : txs' = Append(txs, r) /\ r.status \in Final
      BY <1>2, <2>2, NewStatus
    <3>3. txs \in Seq(Row) /\ pc[p] \in LockHeld
      BY <3>1 DEF LockInv, TypeOK, DbTypeOK, LockHeld
    <3>4. row = r
      <4> DEFINE S == Row \cup {r}
      <4>1. txs \in Seq(S) /\ r \in S /\ row \in S
        BY <3>3
      <4> HIDE DEF S
      <4>2. Append(txs, r)[Len(txs) + 1] = r /\ Append(txs, row)[Len(txs) + 1] = row
        BY <4>1, AppendProperties
      <4> QED  BY <3>1, <3>2, <4>2
    <3>5. (t \in DOMAIN txs /\ txs'[t] = txs[t]) \/ txs'[t] = row
      BY <3>1, <3>3, AppendProperties
    <3> QED  BY <3>1, <3>2, <3>3, <3>4, <3>5 DEF AdmittedInv
  <2> QED  BY <2>1, <2>2
<1>3. ASSUME NEW p \in Processes, Fail(p) \/ (\E r \in Requests : Receive(p, r))
      PROVE  AdmittedInv'
  <2>1. /\ txs' = txs /\ pc'[p] \notin LockHeld
        /\ \A q \in Processes : q # p => pc'[q] = pc[q] /\ req'[q] = req[q]
    BY <1>3 DEF Fail, Receive, Goto, db, LockInv, TypeOK, ProcessTypeOK, LockHeld, Inserted
  <2> QED  BY <2>1 DEF AdmittedInv, Admitted, LockHeld, Inserted
<1>4. CASE UNCHANGED vars
  BY <1>4 DEF vars, AdmittedInv, Admitted, LockHeld, Inserted
<1>5. ASSUME NEW p \in Processes, Step(p) PROVE AdmittedInv'
  BY <1>1, <1>2, <1>5 DEF AdmittedInv, Admitted, LockHeld, Inserted
<1> QED  BY <1>3, <1>4, <1>5 DEF Next

(***************************************************************************)
(* Verdicts.                                                                *)
(***************************************************************************)
\* A lookup by external id finds the row, if there is one.
LEMMA FindsTheRow ==
  ASSUME TypeOK, ClaimedOnce, NEW r
  PROVE  LET i == FindByProviderAndExternalID(r.provider, r.ref)
         IN  /\ i = NoTx => \A t \in DOMAIN txs : ~Names(r, t)
             /\ i # NoTx => /\ i \in DOMAIN txs /\ Names(r, i)
                            /\ \A t \in DOMAIN txs : Names(r, t) => t = i
<1> DEFINE rows == {t \in DOMAIN txs : txs[t].req.provider = r.provider /\ txs[t].req.ext = r.ref}
           i == FindByProviderAndExternalID(r.provider, r.ref)
<1>1. NoTx \notin DOMAIN txs
  BY DEF TypeOK, DbTypeOK, NoTx
<1>2. i = TheRow(rows)
  BY DEF FindByProviderAndExternalID
<1>3. rows = {} => i = NoTx
  BY <1>2 DEF TheRow
<1>4. rows # {} => i \in rows
  BY <1>2 DEF TheRow
<1>5. \A t \in DOMAIN txs : Names(r, t) <=> t \in rows
  BY DEF Names
<1>6. \A t, u \in DOMAIN txs : Names(r, t) /\ Names(r, u) => t = u
  BY DEF ClaimedOnce, Names
<1> QED  BY <1>1, <1>3, <1>4, <1>5, <1>6

\* A reversal that is found exists.
LEMMA ReversalFound ==
  ASSUME TypeOK, NEW r, FindProcessedReversal(r.provider, r.ref, r.kind) # NoTx
  PROVE  ~NotReversed(r)
<1> DEFINE rows == {i \in DOMAIN txs : /\ txs[i].req.provider = r.provider
                                      /\ txs[i].req.ref = r.ref
                                      /\ txs[i].req.kind = r.kind
                                      /\ txs[i].status = "PROCESSED"}
<1>1. rows # {}
  BY DEF FindProcessedReversal, TheRow
<1> QED  BY <1>1 DEF NotReversed

\* The row a reversal names is a wager of the same wallet, in the same currency.
LEMMA SameCurrency ==
  ASSUME ReferencesStayInWallet, TypeOK, AdmittedInv, NEW r \in Requests,
         r.kind \in Reversals, Admitted(r), NEW i \in DOMAIN txs, Names(r, i)
  PROVE  txs[i].req.currency = r.currency
<1>1. txs[i].req \in Requests
  <2>1. txs \in Seq(Row)
    BY DEF TypeOK, DbTypeOK
  <2>2. txs[i] \in Row
    BY <2>1
  <2> QED  BY <2>2 DEF Row
<1>2. txs[i].req.wallet = r.wallet
  BY <1>1 DEF ReferencesStayInWallet, Names
<1> QED  BY <1>2 DEF AdmittedInv, Admitted

\* The verdict of the first lookup.
LEMMA FindReferenceVerdict ==
  ASSUME AtomicInv, NEW p \in Processes, FindReference(p)
  PROVE  /\ req[p].kind \in Reversals
         /\ pc'[p] = "settle" => VerdictHolds(req[p], verdict'[p], ref'[p])
<1> USE DEF AtomicInv, ClaimInv, LockInv
<1> DEFINE i == FindByProviderAndExternalID(req[p].provider, req[p].ref)
           v == ReferenceVerdict(req[p].kind, i)
<1>1. /\ req[p].kind \in Reversals /\ verdict'[p] = v /\ ref'[p] = i
      /\ pc'[p] = "settle" => v # "move"
  BY DEF FindReference, Goto, TypeOK, ProcessTypeOK
<1>2. /\ i = NoTx => \A t \in DOMAIN txs : ~Names(req[p], t)
      /\ i # NoTx => /\ i \in DOMAIN txs /\ Names(req[p], i)
                     /\ \A t \in DOMAIN txs : Names(req[p], t) => t = i
  BY FindsTheRow
<1>3. v \in {"postpone", "REFERENCE_NOT_FOUND", "move"}
  BY DEF ReferenceVerdict
<1>4. v = "postpone" => i = NoTx \/ txs[i].status \in {"PENDING", "PENDING_REFERENCE"}
  BY DEF ReferenceVerdict
<1>5. v = "REFERENCE_NOT_FOUND" =>
        /\ i # NoTx /\ txs[i].status \notin {"PENDING", "PENDING_REFERENCE"}
        /\ txs[i].status \in {"REJECTED", "FAILED"} \/ txs[i].req.kind \notin ReversibleBy(req[p].kind)
  BY DEF ReferenceVerdict
<1>6. i # NoTx => txs[i].status \in {"PROCESSED", "REJECTED", "PENDING_REFERENCE"}
  BY <1>2 DEF AdmittedInv, Final
<1> HIDE DEF i, v
<1>7. v = "postpone" => \A t \in DOMAIN txs : Names(req[p], t) => txs[t].status = "PENDING_REFERENCE"
  BY <1>2, <1>4, <1>6
<1>8. v = "REFERENCE_NOT_FOUND" =>
        \E t \in DOMAIN txs :
          /\ Names(req[p], t)
          /\ \/ txs[t].status = "REJECTED"
             \/ txs[t].status = "PROCESSED" /\ txs[t].req.kind \notin ReversibleBy(req[p].kind)
  BY <1>2, <1>5, <1>6
<1> QED  BY <1>1, <1>3, <1>7, <1>8 DEF VerdictHolds, Refusals

\* The verdict of the second.
LEMMA FindReversalVerdict ==
  ASSUME ReferencesStayInWallet, AtomicInv, NEW p \in Processes, FindReversal(p)
  PROVE  VerdictHolds(req[p], verdict'[p], ref'[p])
<1> USE DEF AtomicInv, ClaimInv, LockInv
<1> DEFINE i == ref[p]
           v == ReversalVerdict(req[p], txs[i].req)
<1>1. pc[p] = "reversal" /\ verdict'[p] = v /\ ref'[p] = i
  BY DEF FindReversal, Goto, TypeOK, ProcessTypeOK
<1>2. /\ req[p].kind \in Reversals /\ RefersTo(req[p], i) /\ i \in DOMAIN txs /\ Names(req[p], i)
      /\ req[p] \in Requests /\ Admitted(req[p])
  BY <1>1 DEF VerdictsStand, ReversalInv, LookupsStand, RefersTo, Names, TypeOK, PhaseOK,
     AdmittedInv, LockHeld, Inserted
<1>3. txs[i].req.currency = req[p].currency
  BY <1>2, SameCurrency
<1> HIDE DEF i
<1>4. v \in {"REFERENCE_ALREADY_REVERSED", "AMOUNT_MISMATCH", "move"}
  BY DEF ReversalVerdict
<1>5. v = "REFERENCE_ALREADY_REVERSED" => ~NotReversed(req[p])
  <2> SUFFICES ASSUME v = "REFERENCE_ALREADY_REVERSED" PROVE ~NotReversed(req[p])
    OBVIOUS
  <2>1. FindProcessedReversal(req[p].provider, req[p].ref, req[p].kind) # NoTx
    BY DEF ReversalVerdict
  <2> QED  BY <2>1, ReversalFound
<1>6. v \in {"AMOUNT_MISMATCH", "move"} => NotReversed(req[p])
  <2> SUFFICES ASSUME v \in {"AMOUNT_MISMATCH", "move"} PROVE NotReversed(req[p])
    OBVIOUS
  <2>1. FindProcessedReversal(req[p].provider, req[p].ref, req[p].kind) = NoTx
    BY DEF ReversalVerdict
  <2> QED  BY <2>1, NoReversalFound
<1>7. /\ v = "AMOUNT_MISMATCH" => req[p].kind = "REFUND" /\ req[p].amount # txs[i].req.amount
      /\ v = "move" => AmountAgrees(req[p], i)
  BY <1>3 DEF ReversalVerdict, AmountAgrees
<1> HIDE DEF v
<1> QED  BY <1>1, <1>2, <1>4, <1>5, <1>6, <1>7 DEF VerdictHolds, Refusals
\* A verdict outlives the steps of the others: no holder of another wallet's lock
\* can write a row that the verdict is about.
LEMMA VerdictStays ==
  ASSUME ReferencesStayInWallet, AtomicInv, NEW q \in Processes, pc[q] = "settle",
         NEW p \in Processes, p # q, Step(p)
  PROVE  VerdictHolds(req[q], verdict[q], ref[q])'
<1> DEFINE r == req[q]
           v == verdict[q]
           i == ref[q]
<1>1. req'[q] = r /\ verdict'[q] = v /\ ref'[q] = i
  BY StepKeepsRows DEF Own, AtomicInv, ClaimInv, LockInv, TypeOK, ProcessTypeOK
<1>2. VerdictHolds(r, v, i)
  BY DEF AtomicInv, VerdictsStand
<1>3. CASE txs' = txs
  BY <1>1, <1>2, <1>3 DEF VerdictHolds, Names, RefersTo, NotReversed, AmountAgrees
<1>4. CASE txs' # txs
  <2>1. PICK row \in Row : txs' = Append(txs, row) /\ row.req = req[p] /\ pc[p] \in Inserted
    BY <1>4, NewRow DEF AtomicInv, ClaimInv
  <2>2. /\ txs \in Seq(Row) /\ pc[p] \in LockHeld /\ pc[q] \in LockHeld
        /\ req[p] \in Requests /\ r \in Requests
    BY <2>1 DEF AtomicInv, ClaimInv, LockInv, TypeOK, DbTypeOK, PhaseOK, LockHeld, Inserted
  <2>3. req[p].wallet # r.wallet
    BY <2>2 DEF AtomicInv, ClaimInv, LockInv, LockProtectsWallet, LockExclusive
  <2> HIDE DEF r, v, i
  <2>4. /\ ~(row.req.provider = r.provider /\ row.req.ext = r.ref)
        /\ ~(row.req.provider = r.provider /\ row.req.ref = r.ref /\ row.req.kind = r.kind)
    BY <1>2, <2>1, <2>2, <2>3 DEF ReferencesStayInWallet, VerdictHolds
  <2>5. /\ DOMAIN txs' = DOMAIN txs \cup {Len(txs) + 1} /\ txs'[Len(txs)+1] = row
        /\ \A t \in DOMAIN txs : txs'[t] = txs[t]
    BY <2>1, <2>2, AppendProperties
  <2>6. v = "postpone" =>
          \A t \in DOMAIN txs' : txs'[t].req.provider = r.provider /\ txs'[t].req.ext = r.ref =>
                                   txs'[t].status = "PENDING_REFERENCE"
    BY <1>2, <2>4, <2>5 DEF VerdictHolds, Names
  <2>7. v = "REFERENCE_NOT_FOUND" =>
          \E t \in DOMAIN txs' :
            /\ txs'[t].req.provider = r.provider /\ txs'[t].req.ext = r.ref
            /\ \/ txs'[t].status = "REJECTED"
               \/ txs'[t].status = "PROCESSED" /\ txs'[t].req.kind \notin ReversibleBy(r.kind)
    BY <1>2, <2>5 DEF VerdictHolds, Names
  <2>8. /\ NotReversed(r) =>
             \A t \in DOMAIN txs' :
               ~(/\ txs'[t].req.provider = r.provider /\ txs'[t].req.ref = r.ref
                 /\ txs'[t].req.kind = r.kind /\ txs'[t].status = "PROCESSED")
        /\ ~NotReversed(r) =>
             \E t \in DOMAIN txs' :
               /\ txs'[t].req.provider = r.provider /\ txs'[t].req.ref = r.ref
               /\ txs'[t].req.kind = r.kind /\ txs'[t].status = "PROCESSED"
    BY <2>4, <2>5 DEF NotReversed
  <2>9. RefersTo(r, i) =>
          /\ i \in DOMAIN txs' /\ txs'[i] = txs[i]
          /\ txs'[i].req.provider = r.provider /\ txs'[i].req.ext = r.ref
          /\ txs'[i].status = "PROCESSED" /\ txs'[i].req.kind \in ReversibleBy(r.kind)
    BY <2>5 DEF RefersTo
  <2>10. /\ r.kind \in Reversals /\ v \in {"postpone", "move"} \cup Refusals
         /\ v \in {"REFERENCE_ALREADY_REVERSED", "AMOUNT_MISMATCH", "move"} => RefersTo(r, i)
         /\ v = "REFERENCE_ALREADY_REVERSED" => ~NotReversed(r)
         /\ v \in {"AMOUNT_MISMATCH", "move"} => NotReversed(r)
         /\ v = "AMOUNT_MISMATCH" => r.kind = "REFUND" /\ r.amount # txs[i].req.amount
         /\ v = "move" => (r.kind = "REFUND" => r.amount = txs[i].req.amount)
    BY <1>2 DEF VerdictHolds, AmountAgrees
  <2> QED
    BY <1>1, <2>6, <2>7, <2>8, <2>9, <2>10
    DEF VerdictHolds, Names, RefersTo, NotReversed, AmountAgrees
<1> QED  BY <1>3, <1>4
LEMMA NextVerdicts ==
  ASSUME ReferencesStayInWallet, AtomicInv, [Next]_vars
  PROVE  VerdictsStand'
<1> USE DEF AtomicInv, ClaimInv, LockInv
<1> SUFFICES ASSUME NEW q \in Processes
             PROVE  /\ pc'[q] = "reversal" => req'[q].kind \in Reversals
                    /\ pc'[q] = "settle" => VerdictHolds(req[q], verdict[q], ref[q])'
  BY DEF VerdictsStand
<1>1. ASSUME UNCHANGED <<txs, pc, req, verdict, ref>>
      PROVE  /\ pc'[q] = "reversal" => req'[q].kind \in Reversals
             /\ pc'[q] = "settle" => VerdictHolds(req[q], verdict[q], ref[q])'
  BY <1>1 DEF VerdictsStand, VerdictHolds, Names, RefersTo, NotReversed, AmountAgrees
<1>2. ASSUME Step(q)
      PROVE  /\ pc'[q] = "reversal" => req'[q].kind \in Reversals
             /\ pc'[q] = "settle" => VerdictHolds(req[q], verdict[q], ref[q])'
  <2>1. CASE pc'[q] \notin {"reversal", "settle"}
    BY <2>1
  <2>2. CASE pc'[q] \in {"reversal", "settle"}
    <3>1. Quiet(q)
      BY <1>2, <2>2, StepShape DEF Locks, Claims, Records, Pays, PaysEntry, Commits
    <3>2. FindReference(q) \/ FindReversal(q)
      BY <1>2, <2>2, LooksUp
    <3>3. req' = req /\ txs' = txs
      BY <3>1 DEF Quiet, Own, db
    <3>4. CASE FindReference(q)
      <4>1. /\ req[q].kind \in Reversals
            /\ pc'[q] = "settle" => VerdictHolds(req[q], verdict'[q], ref'[q])
        BY <3>4, FindReferenceVerdict
      <4> QED
        BY <3>3, <4>1 DEF VerdictHolds, Names, RefersTo, NotReversed, AmountAgrees
    <3>5. CASE FindReversal(q)
      <4>1. VerdictHolds(req[q], verdict'[q], ref'[q]) /\ pc'[q] = "settle"
        BY <3>5, FindReversalVerdict DEF FindReversal, Goto, TypeOK, ProcessTypeOK
      <4> QED
        BY <3>3, <4>1 DEF VerdictHolds, Names, RefersTo, NotReversed, AmountAgrees
    <3> QED  BY <3>2, <3>4, <3>5
  <2> QED  BY <2>1, <2>2
<1>3. ASSUME NEW p \in Processes, p # q, Step(p)
      PROVE  /\ pc'[q] = "reversal" => req'[q].kind \in Reversals
             /\ pc'[q] = "settle" => VerdictHolds(req[q], verdict[q], ref[q])'
  <2>1. req' = req /\ pc'[q] = pc[q]
    BY <1>3, StepKeepsRows DEF Own, TypeOK, ProcessTypeOK
  <2> QED  BY <1>3, <2>1, VerdictStays DEF VerdictsStand
<1>4. ASSUME NEW p \in Processes, Fail(p) \/ (\E r \in Requests : Receive(p, r))
      PROVE  /\ pc'[q] = "reversal" => req'[q].kind \in Reversals
             /\ pc'[q] = "settle" => VerdictHolds(req[q], verdict[q], ref[q])'
  <2>1. /\ txs' = txs /\ pc'[p] \in {"idle", "lookup"}
        /\ p # q => /\ pc'[q] = pc[q] /\ req'[q] = req[q] /\ verdict'[q] = verdict[q]
                    /\ ref'[q] = ref[q]
    BY <1>4 DEF Fail, Receive, Goto, db, TypeOK, ProcessTypeOK
  <2>2. CASE p = q
    BY <2>1, <2>2
  <2>3. CASE p # q
    BY <2>1, <2>3 DEF VerdictsStand, VerdictHolds, Names, RefersTo, NotReversed, AmountAgrees
  <2> QED  BY <2>2, <2>3
<1>5. CASE UNCHANGED vars
  BY <1>1, <1>5 DEF vars
<1> QED  BY <1>2, <1>3, <1>4, <1>5 DEF Next

\* All an execution needs to know is inductive.
LEMMA AlwaysAtomicInv ==
  ASSUME ReferencesStayInWallet
  PROVE  Spec => []AtomicInv
<1>1. Init => AtomicInv
  <2>1. Init => AdmittedInv /\ VerdictsStand
    BY DEF Init, AdmittedInv, VerdictsStand, LockHeld, Inserted
  <2>2. Init => ReversalInv
    BY InitReversalInv
  <2> QED  BY <2>1, <2>2, InitClaimInv DEF AtomicInv
<1>2. AtomicInv /\ [Next]_vars => AtomicInv'
  <2> SUFFICES ASSUME AtomicInv, [Next]_vars PROVE AtomicInv'
    OBVIOUS
  <2>1. ClaimInv' /\ ReversalInv'
    BY NextClaimInv, NextReversalInv DEF AtomicInv
  <2>2. AdmittedInv'
    BY NextAdmitted DEF AtomicInv, ClaimInv
  <2>3. VerdictsStand'
    BY NextVerdicts
  <2> QED  BY <2>1, <2>2, <2>3 DEF AtomicInv
<1> QED  BY <1>1, <1>2, PTL DEF Spec
(***************************************************************************)
(* The outcomes that the rows stand for.                                    *)
(***************************************************************************)
Balances == [w \in Wallets |-> wallets[w].balance]
Outcomes == [t \in DOMAIN txs |-> AbstractOutcome(t)]

\* The abstract module speaks of kinds, amounts and word size as this one does.
LEMMA SameVocabulary ==
  /\ Atomic!Reversals = Reversals
  /\ \A k : Atomic!ReversibleBy(k) = ReversibleBy(k)
  /\ \A k, a, h : Atomic!WellFormed(k, a, h) <=> WellFormed(k, a, h)
  /\ \A b, a : Atomic!CanCredit(b, a) <=> CanCredit(b, a)
  /\ \A b, a : Atomic!CanDebit(b, a) <=> CanDebit(b, a)
<1>1. Atomic!Reversals = Reversals /\ Atomic!Kinds = Kinds
  BY DEF Atomic!Reversals, Reversals, Atomic!Kinds, Kinds
<1>2. \A k : Atomic!ReversibleBy(k) = ReversibleBy(k)
  BY DEF Atomic!ReversibleBy, ReversibleBy
<1>3. \A k, a, h : Atomic!WellFormed(k, a, h) <=> WellFormed(k, a, h)
  BY <1>1 DEF Atomic!WellFormed, WellFormed
<1>4. \A b, a : Atomic!CanCredit(b, a) <=> CanCredit(b, a)
  BY DEF Atomic!CanCredit, CanCredit, Atomic!AddFits, AddFits, Atomic!MinInt, MinInt
<1>5. \A b, a : Atomic!CanDebit(b, a) <=> CanDebit(b, a)
  BY DEF Atomic!CanDebit, CanDebit
<1> QED  BY <1>1, <1>2, <1>3, <1>4, <1>5

\* The entry of a row is the one that carries its id.
LEMMA TheEntry ==
  ASSUME NEW L, NEW t, NEW i \in DOMAIN L, L[i].tx = t,
         \A j \in DOMAIN L : L[j].tx = t => j = i
  PROVE  L[CHOOSE k \in DOMAIN L : L[k].tx = t] = L[i]
<1> DEFINE c == CHOOSE k \in DOMAIN L : L[k].tx = t
<1>1. c \in DOMAIN L /\ L[c].tx = t
  OBVIOUS
<1>2. c = i
  BY <1>1
<1> QED  BY <1>2

LedgersGrow ==
  \A w \in Wallets : \A i \in DOMAIN ledger[w] :
    i \in DOMAIN ledger'[w] /\ ledger'[w][i] = ledger[w][i]

\* Committed outcomes do not change.
LEMMA OutcomeStays ==
  ASSUME AtomicInv, AtomicInv', LedgersGrow, NEW t \in DOMAIN txs,
         t \in DOMAIN txs', txs'[t] = txs[t]
  PROVE  AbstractOutcome(t)' = AbstractOutcome(t)
<1> USE DEF AtomicInv, ReversalInv, EntryInv
<1>1. CASE ~Moving(txs[t])
  BY <1>1 DEF AbstractOutcome, Moves, Moving
<1>2. CASE Moving(txs[t])
  <2> DEFINE w == txs[t].req.wallet
  <2>1. w \in Wallets /\ \E i \in DOMAIN ledger[w] : ledger[w][i].tx = t
    BY <1>2 DEF RowsHaveEntries
  <2>2. PICK i \in DOMAIN ledger[w] : ledger[w][i].tx = t
    BY <2>1
  <2>3. t # NoTx
    BY DEF LockInv, TypeOK, DbTypeOK, NoTx
  <2>4. i \in DOMAIN ledger'[w] /\ ledger'[w][i] = ledger[w][i]
    BY <2>1, <2>2 DEF LedgersGrow
  <2>5. EntryOf(t) = ledger[w][i]
    <3>1. \A j \in DOMAIN ledger[w] : ledger[w][j].tx = t => j = i
      BY <2>1, <2>2, <2>3 DEF EntriesDistinct
    <3> QED  BY <2>2, <3>1, TheEntry DEF EntryOf
  <2>6. EntryOf(t)' = ledger[w][i]
    <3>1. \A j \in DOMAIN ledger'[w] : ledger'[w][j].tx = t => j = i
      BY <2>1, <2>2, <2>3, <2>4 DEF EntriesDistinct
    <3>2. ledger'[w][CHOOSE k \in DOMAIN ledger'[w] : ledger'[w][k].tx = t] = ledger'[w][i]
      BY <2>2, <2>4, <3>1, TheEntry
    <3> QED  BY <2>4, <3>2 DEF EntryOf
  <2> HIDE DEF w
  <2> QED  BY <2>5, <2>6 DEF AbstractOutcome, Moves
<1> QED  BY <1>1, <1>2

\* A new row is a new outcome.
LEMMA Recorded ==
  ASSUME AtomicInv, AtomicInv', LedgersGrow, NEW p \in Processes, NEW row \in Row,
         txs' = Append(txs, row), row.req = req[p],
         NEW moved \in Int, NEW k, k = Len(txs) + 1, Moves(k)' = moved,
         NEW code, code = (IF row.code = Null THEN "none" ELSE row.code),
         Balances' = [Balances EXCEPT ![req[p].wallet] = @ + moved]
  PROVE  Atomic!Record(req[p], row.status, code, moved)
<1> DEFINE o == [req |-> row.req, status |-> row.status, code |-> code, moved |-> moved]
           S == {AbstractOutcome(t) : t \in DOMAIN txs}
<1>1. txs \in Seq(Row)
  BY DEF AtomicInv, ClaimInv, LockInv, TypeOK, DbTypeOK
<1>2. /\ DOMAIN txs = 1..Len(txs) /\ Len(txs) \in Nat /\ DOMAIN txs' = 1..(Len(txs)+1)
      /\ txs'[k] = row /\ \A t \in DOMAIN txs : t \in DOMAIN txs' /\ txs'[t] = txs[t]
  BY <1>1, AppendProperties
<1>3. \A t \in DOMAIN txs : AbstractOutcome(t)' = AbstractOutcome(t)
  BY <1>2, OutcomeStays
<1>4. AbstractOutcome(k)' = o
  BY <1>2 DEF AbstractOutcome
<1>5. Outcomes' = [t \in 1..(Len(txs)+1) |-> IF t = k THEN o ELSE AbstractOutcome(t)]
  <2>1. \A t \in 1..(Len(txs)+1) : t # k => t \in DOMAIN txs
    BY <1>2
  <2> HIDE DEF o
  <2> QED  BY <1>2, <1>3, <1>4, <2>1 DEF Outcomes
<1>6. Append(Outcomes, o) = [t \in 1..(Len(txs)+1) |-> IF t = k THEN o ELSE AbstractOutcome(t)]
  <2> DEFINE T == S \cup {o}
  <2>1. Outcomes \in Seq(T) /\ Len(Outcomes) = Len(txs) /\ o \in T
    <3>1. Outcomes \in [1..Len(txs) -> T]
      BY <1>2 DEF Outcomes
    <3> HIDE DEF T
    <3> QED  BY <1>2, <3>1 DEF T
  <2>2. \A t \in 1..Len(txs) : Outcomes[t] = AbstractOutcome(t)
    BY <1>2 DEF Outcomes
  <2> HIDE DEF o, S, T
  <2>3. /\ Append(Outcomes, o) \in Seq(T) /\ Len(Append(Outcomes, o)) = Len(txs) + 1
        /\ \A t \in 1..Len(txs) : Append(Outcomes, o)[t] = Outcomes[t]
        /\ Append(Outcomes, o)[Len(txs) + 1] = o
    BY <2>1, AppendProperties
  <2>4. Append(Outcomes, o) \in [1..(Len(txs)+1) -> T]
    BY <2>3, LenProperties
  <2>5. \A t \in 1..(Len(txs)+1) :
          Append(Outcomes, o)[t] = IF t = k THEN o ELSE AbstractOutcome(t)
    BY <1>2, <2>2, <2>3
  <2> QED  BY <2>4, <2>5
<1>7. Outcomes' = Append(Outcomes, o)
  BY <1>5, <1>6
<1> QED  BY <1>7 DEF Outcomes, Balances, Atomic!Record, Atomic!Outcome
(***************************************************************************)
(* Operators.  Each way to commit is the outcome of the same name.          *)
(***************************************************************************)
\* What a transaction that settles knows of its wallet.
LEMMA WalletKnown ==
  ASSUME AtomicInv, NEW p \in Processes, pc[p] \in Inserted
  PROVE  /\ req[p] \in Requests /\ req[p].wallet \in Wallets
         /\ snap[p] = wallets[req[p].wallet] /\ wallets[req[p].wallet] \in WalletRow
         /\ snap[p].balance \in 0..MaxInt
         /\ Balances[req[p].wallet] = snap[p].balance
         /\ req[p].amount \in Int
  BY Settling DEF AtomicInv, ClaimInv, LockInv, LockProtectsWallet, SnapshotCurrent, Balances,
     TypeOK, DbTypeOK

\* A rejection moves nothing.
LEMMA RejectRefines ==
  ASSUME AtomicInv, AtomicInv', NEW p \in Processes, pc[p] \in Inserted,
         NEW code \in FailureCodes, RejectTransaction(p, code)
  PROVE  Atomic!Reject(req[p], code)
<1> DEFINE x == ResolvedReference(p)
           row == TxRow(req[p], "REJECTED", code, Null, x)
<1>1. req[p] \in Requests /\ req[p].wallet \in Wallets /\ x \in Nat /\ "REJECTED" \in Statuses
  BY Settling DEF AtomicInv, ClaimInv, LockInv, Statuses
<1> HIDE DEF x
<1>2. row \in Row /\ row.req = req[p] /\ row.status = "REJECTED" /\ row.code = code
  BY <1>1 DEF TxRow, Row
<1>3. txs' = Append(txs, row) /\ wallets' = wallets /\ ledger' = ledger
  BY DEF RejectTransaction, x
<1>4. txs \in Seq(Row) /\ wallets \in [Wallets -> WalletRow]
  BY DEF AtomicInv, ClaimInv, LockInv, TypeOK, DbTypeOK
<1> HIDE DEF row
<1>k. PICK k : k = Len(txs) + 1
  OBVIOUS
<1>5. txs'[k] = row
  BY <1>2, <1>3, <1>4, <1>k, AppendProperties
<1>6. Moves(k)' = 0
  BY <1>2, <1>5 DEF Moves
<1>7. Balances' = [Balances EXCEPT ![req[p].wallet] = @ + 0]
  <2>1. wallets[req[p].wallet].balance \in Int
    BY <1>1, <1>4 DEF WalletRow
  <2>2. Balances' = Balances
    BY <1>3 DEF Balances
  <2> QED  BY <1>1, <2>1, <2>2 DEF Balances
<1>8. code = (IF row.code = Null THEN "none" ELSE row.code)
  <2>1. code # Null
    BY NullAssumption
  <2> QED  BY <1>2, <2>1
<1>9. LedgersGrow
  BY <1>3 DEF LedgersGrow
<1>10. Atomic!Record(req[p], row.status, code, 0)
  BY <1>2, <1>3, <1>6, <1>7, <1>8, <1>9, <1>k, Recorded, 0 \in Int
<1> QED  BY <1>2, <1>10 DEF Atomic!Reject

\* A settlement moves the wallet and records by how much.
LEMMA CommitRefines ==
  ASSUME AtomicInv, AtomicInv', NEW p \in Processes, pc[p] \in Inserted, req[p].kind # "LOSS",
         NEW direction \in Directions, NEW amount \in 1..MaxInt,
         Moved(snap[p].balance, direction, amount) \in 0..MaxInt,
         CommitSuccess(p, direction, amount)
  PROVE  Atomic!Record(req[p], "PROCESSED", "none",
                       IF direction = "CREDIT" THEN amount ELSE -amount)
<1>k. PICK k : k = Len(txs) + 1
  OBVIOUS
<1> DEFINE w     == req[p].wallet
           before == snap[p].balance
           after == Moved(before, direction, amount)
           entry == LedgerEntry(k, direction, amount, before)
           x     == ResolvedReference(p)
           row   == TxRow(req[p], "PROCESSED", Null, after, x)
           moved == IF direction = "CREDIT" THEN amount ELSE -amount
<1>1. /\ req[p] \in Requests /\ w \in Wallets /\ snap[p] = wallets[w] /\ before \in 0..MaxInt
      /\ Balances[w] = before
  BY WalletKnown
<1>2. /\ entry.after = after /\ entry.before = before /\ entry.tx = k /\ entry \in Entry
      /\ after = before + moved /\ moved \in Int
  <2>1. k \in Nat
    BY <1>k DEF AtomicInv, ClaimInv, LockInv, TypeOK, DbTypeOK
  <2> QED  BY <1>1, <2>1 DEF LedgerEntry, Entry, Moved, Directions
<1>3. x \in Nat /\ "PROCESSED" \in Statuses
  BY Settling DEF AtomicInv, ClaimInv, LockInv, Statuses
<1>4. row \in Row /\ row.req = req[p] /\ row.status = "PROCESSED" /\ row.code = Null
  <2> HIDE DEF after, x
  <2>1. after \in 0..MaxInt
    BY DEF after
  <2> QED  BY <1>1, <1>3, <2>1 DEF TxRow, Row
<1>5. /\ txs' = Append(txs, row) /\ ledger' = [ledger EXCEPT ![w] = Append(@, entry)]
      /\ wallets' = [wallets EXCEPT ![w] = [balance |-> after, version |-> NextVersion(p)]]
  <2>1. ~LostUpdate(p)
    BY <1>1 DEF LostUpdate
  <2>2. ~(after < 0)
    OBVIOUS
  <2> QED  BY <1>2, <1>k, <2>1, <2>2 DEF CommitSuccess, NextId, LedgerEntry
<1>6. /\ txs \in Seq(Row) /\ wallets \in [Wallets -> WalletRow] /\ ledger \in [Wallets -> Seq(Entry)]
  BY DEF AtomicInv, ClaimInv, LockInv, TypeOK, DbTypeOK
<1> HIDE DEF row, x, entry, after, before, moved
<1>7. txs'[k] = row /\ k # NoTx
  BY <1>4, <1>5, <1>6, <1>k, AppendProperties DEF NoTx
<1>8. LedgersGrow
  <2> SUFFICES ASSUME NEW v \in Wallets, NEW i \in DOMAIN ledger[v]
               PROVE  i \in DOMAIN ledger'[v] /\ ledger'[v][i] = ledger[v][i]
    BY DEF LedgersGrow
  <2>1. CASE v # w
    BY <1>5, <1>6, <2>1
  <2>2. CASE v = w
    <3>1. ledger'[v] = Append(ledger[v], entry) /\ ledger[v] \in Seq(Entry)
      BY <1>5, <1>6, <2>2
    <3> QED  BY <1>2, <3>1, AppendProperties
  <2> QED  BY <2>1, <2>2
<1>9. Moves(k)' = moved
  <2> DEFINE L == ledger'[w]
             n == Len(ledger[w]) + 1
  <2>1. n \in DOMAIN L /\ L[n] = entry
    <3>1. L = Append(ledger[w], entry) /\ ledger[w] \in Seq(Entry)
      BY <1>1, <1>5, <1>6
    <3> QED  BY <1>2, <3>1, AppendProperties
  <2>2. \A j \in DOMAIN L : L[j].tx = k => j = n
    BY <1>1, <1>2, <1>7, <2>1 DEF AtomicInv, ReversalInv, EntryInv, EntriesDistinct
  <2> HIDE DEF n, L
  <2>3. L[CHOOSE j \in DOMAIN L : L[j].tx = k] = entry
    BY <1>2, <2>1, <2>2, TheEntry
  <2>4. EntryOf(k)' = entry
    BY <1>4, <1>7, <2>3 DEF EntryOf, L
  <2>5. entry.after - entry.before = moved
    BY <1>1, <1>2
  <2> QED  BY <1>4, <1>7, <2>4, <2>5 DEF Moves
<1>10. Balances' = [Balances EXCEPT ![w] = @ + moved]
  <2>1. \A v \in Wallets : wallets'[v].balance = IF v = w THEN before + moved ELSE wallets[v].balance
    BY <1>1, <1>2, <1>5, <1>6
  <2> QED  BY <1>1, <2>1 DEF Balances
<1>11. "none" = (IF row.code = Null THEN "none" ELSE row.code)
  BY <1>4
<1> HIDE DEF w
<1>12. Atomic!Record(req[p], row.status, "none", moved)
  BY <1>2, <1>4, <1>5, <1>8, <1>9, <1>10, <1>11, <1>k, Recorded DEF w
<1> QED  BY <1>4, <1>12 DEF moved
\* A credit pays, or overflows and changes nothing.
LEMMA CreditRefines ==
  ASSUME AtomicInv, AtomicInv', NEW p \in Processes, pc[p] \in Inserted, req[p].kind # "LOSS",
         NEW amount \in Int, Credit(p, amount)
  PROVE  UNCHANGED db \/ Atomic!Pay(req[p], amount)
<1>1. snap[p].balance \in 0..MaxInt /\ Balances[req[p].wallet] = snap[p].balance
  BY WalletKnown
<1>2. CASE CanCredit(snap[p].balance, amount)
  <2>1. amount \in 1..MaxInt /\ Moved(snap[p].balance, "CREDIT", amount) \in 0..MaxInt
    BY <1>1, <1>2, MaxIntAssumption DEF CanCredit, AddFits, MinInt, Moved
  <2>2. CommitSuccess(p, "CREDIT", amount) /\ "CREDIT" \in Directions
    BY <1>2 DEF Credit, Directions
  <2>3. Atomic!Record(req[p], "PROCESSED", "none", amount)
    BY <2>1, <2>2, CommitRefines
  <2>4. Atomic!CanCredit(Balances[req[p].wallet], amount)
    BY <1>1, <1>2, SameVocabulary
  <2> QED  BY <2>3, <2>4 DEF Atomic!Pay, Balances
<1>3. CASE ~CanCredit(snap[p].balance, amount)
  BY <1>3 DEF Credit, Abort
<1> QED  BY <1>2, <1>3

\* A debit charges, or rejects.
LEMMA DebitRefines ==
  ASSUME AtomicInv, AtomicInv', NEW p \in Processes, pc[p] \in Inserted, req[p].kind # "LOSS",
         NEW amount \in Int, NEW code \in FailureCodes, Debit(p, amount, code)
  PROVE  UNCHANGED db \/ Atomic!Charge(req[p], amount, code)
<1>1. snap[p].balance \in 0..MaxInt /\ Balances[req[p].wallet] = snap[p].balance
  BY WalletKnown
<1>2. CASE CanDebit(snap[p].balance, amount)
  <2>1. amount \in 1..MaxInt /\ Moved(snap[p].balance, "DEBIT", amount) \in 0..MaxInt
    BY <1>1, <1>2, MaxIntAssumption DEF CanDebit, Moved
  <2>2. CommitSuccess(p, "DEBIT", amount) /\ "DEBIT" \in Directions
    BY <1>2 DEF Debit, Directions
  <2>3. Atomic!Record(req[p], "PROCESSED", "none", -amount)
    BY <2>1, <2>2, CommitRefines
  <2>4. Atomic!CanDebit(Balances[req[p].wallet], amount)
    BY <1>1, <1>2, SameVocabulary
  <2> QED  BY <2>3, <2>4 DEF Atomic!Charge, Balances
<1>3. CASE ~CanDebit(snap[p].balance, amount)
  <2>1. Atomic!Reject(req[p], code)
    BY <1>3, RejectRefines DEF Debit
  <2>2. ~Atomic!CanDebit(Balances[req[p].wallet], amount)
    BY <1>1, <1>3, SameVocabulary
  <2> QED  BY <2>1, <2>2 DEF Atomic!Charge, Balances
<1> QED  BY <1>2, <1>3

\* A row that is recorded and moves nothing.
LEMMA RecordRefines ==
  ASSUME AtomicInv, AtomicInv', NEW p \in Processes, pc[p] \in Inserted,
         NEW status \in Statuses, NEW result \in 0..MaxInt \cup {Null},
         status = "PROCESSED" => req[p].kind = "LOSS",
         txs' = Append(txs, TxRow(req[p], status, Null, result, NoTx)),
         UNCHANGED <<wallets, ledger>>
  PROVE  Atomic!Record(req[p], status, "none", 0)
<1> DEFINE row == TxRow(req[p], status, Null, result, NoTx)
<1>k. PICK k : k = Len(txs) + 1
  OBVIOUS
<1>1. req[p] \in Requests /\ req[p].wallet \in Wallets /\ txs \in Seq(Row)
      /\ wallets[req[p].wallet] \in WalletRow
  BY WalletKnown DEF AtomicInv, ClaimInv, LockInv, TypeOK, DbTypeOK
<1>2. row \in Row /\ row.req = req[p] /\ row.status = status /\ row.code = Null
  BY <1>1 DEF TxRow, Row, NoTx
<1>3. txs' = Append(txs, row)
  OBVIOUS
<1> HIDE DEF row
<1>4. txs'[k] = row
  BY <1>1, <1>2, <1>3, <1>k, AppendProperties
<1>5. Moves(k)' = 0
  BY <1>2, <1>4 DEF Moves
<1>6. Balances' = [Balances EXCEPT ![req[p].wallet] = @ + 0]
  <2>1. wallets[req[p].wallet].balance \in Int
    BY <1>1 DEF WalletRow
  <2>2. Balances' = Balances
    BY DEF Balances
  <2> QED  BY <1>1, <2>1, <2>2 DEF Balances
<1>7. LedgersGrow
  BY DEF LedgersGrow
<1>8. Atomic!Record(req[p], row.status, "none", 0)
  BY <1>2, <1>3, <1>5, <1>6, <1>7, <1>k, Recorded, 0 \in Int
<1> QED  BY <1>2, <1>8

(***************************************************************************)
(* What a settlement finds.                                                 *)
(***************************************************************************)
\* Whoever settles holds a fresh claim and has been admitted.
LEMMA Settleable ==
  ASSUME AtomicInv, NEW p \in Processes, pc[p] \in Inserted
  PROVE  Atomic!Fresh(req[p]) /\ Atomic!Accepted(req[p])
<1>1. pc[p] \in LockHeld /\ \A t \in DOMAIN txs : ~SameClaim(txs[t].req, req[p])
  BY DEF AtomicInv, ClaimInv, ClaimsFree, LockHeld
<1>2. \A t \in DOMAIN txs : Outcomes[t].req = txs[t].req
  BY DEF Outcomes, AbstractOutcome
<1>3. Atomic!Fresh(req[p])
  BY <1>1, <1>2 DEF Atomic!Fresh, Outcomes, SameClaim
<1>4. Atomic!Accepted(req[p])
  BY <1>1, SameVocabulary
  DEF Atomic!Accepted, AtomicInv, ClaimInv, LockInv, AdmittedInv, Admitted, TypeOK, PhaseOK
<1> QED  BY <1>3, <1>4

\* The wagers that a reversal meets are the rows.
LEMMA SameRows ==
  ASSUME NEW r
  PROVE  /\ \A t : t \in Atomic!Referenced(r) <=> t \in DOMAIN txs /\ Names(r, t)
         /\ \A t \in DOMAIN txs : /\ Outcomes[t].status = txs[t].status
                                  /\ Outcomes[t].req = txs[t].req
         /\ Atomic!AlreadyReversed(r) <=> ~NotReversed(r)
<1>1. /\ DOMAIN Outcomes = DOMAIN txs
      /\ \A t \in DOMAIN txs : Outcomes[t].status = txs[t].status /\ Outcomes[t].req = txs[t].req
  BY DEF Outcomes, AbstractOutcome
<1>2. Atomic!Referenced(r) =
        {t \in DOMAIN Outcomes : Outcomes[t].req.provider = r.provider /\ Outcomes[t].req.ext = r.ref}
  BY DEF Atomic!Referenced, Outcomes
<1>3. Atomic!AlreadyReversed(r) <=>
        \E t \in DOMAIN Outcomes :
          /\ Outcomes[t].req.provider = r.provider /\ Outcomes[t].req.ref = r.ref
          /\ Outcomes[t].req.kind = r.kind /\ Outcomes[t].status = "PROCESSED"
  BY DEF Atomic!AlreadyReversed, Outcomes
<1> QED  BY <1>1, <1>2, <1>3 DEF Names, NotReversed
\* A reversal whose reference is paid and can be undone: what it may come to.
LEMMA ReverseRefines ==
  ASSUME NEW p \in Processes, ref[p] \in DOMAIN txs, req[p].kind \in Reversals,
         RefersTo(req[p], ref[p])
  PROVE  LET r == req[p]
             o == txs[ref[p]].req
         IN  /\ ~NotReversed(r) /\ Atomic!Reject(r, "REFERENCE_ALREADY_REVERSED")
                => Atomic!Reverse(r)
             /\ /\ NotReversed(r) /\ r.kind = "REFUND" /\ r.amount # o.amount
                /\ Atomic!Reject(r, "AMOUNT_MISMATCH")
                => Atomic!Reverse(r)
             /\ NotReversed(r) /\ AmountAgrees(r, ref[p]) =>
                  /\ o.kind = "BET" /\ Atomic!Pay(r, o.amount) => Atomic!Reverse(r)
                  /\ /\ o.kind # "BET"
                     /\ Atomic!Charge(r, o.amount, "INSUFFICIENT_BALANCE_REVERSAL")
                     => Atomic!Reverse(r)
<1> DEFINE r == req[p]
           i == ref[p]
<1>1. i \in Atomic!Referenced(r)
  BY SameRows DEF RefersTo, Names
<1>2. Outcomes[i].req = txs[i].req /\ Outcomes[i].status = "PROCESSED"
  BY SameRows DEF RefersTo
<1>3. txs[i].req.kind \in Atomic!ReversibleBy(r.kind) /\ r.kind \in Atomic!Reversals
  BY SameVocabulary DEF RefersTo
<1>4. Atomic!AlreadyReversed(r) <=> ~NotReversed(r)
  BY SameRows
<1> QED
  BY <1>1, <1>2, <1>3, <1>4 DEF Atomic!Reverse, Outcomes, AmountAgrees

\* Each action that commits is the outcome it stands for.
LEMMA WagersRefine ==
  ASSUME AtomicInv, AtomicInv', NEW p \in Processes,
         ProcessBet(p) \/ ProcessWin(p) \/ ProcessLoss(p)
  PROVE  UNCHANGED db \/ Atomic!Settle(req[p])
<1>1. pc[p] \in Inserted
  BY DEF ProcessBet, ProcessWin, ProcessLoss, Inserted
<1>2. /\ Atomic!Fresh(req[p]) /\ Atomic!Accepted(req[p]) /\ req[p].amount \in Int
      /\ snap[p].balance \in 0..MaxInt
  BY <1>1, Settleable, WalletKnown
<1>3. CASE ProcessBet(p)
  <2>1. "INSUFFICIENT_BALANCE" \in FailureCodes
    BY DEF FailureCodes
  <2> QED
    BY <1>1, <1>2, <1>3, <2>1, DebitRefines DEF ProcessBet, Atomic!Settle, Atomic!SettleBet
<1>4. CASE ProcessWin(p)
  BY <1>1, <1>2, <1>4, CreditRefines DEF ProcessWin, Atomic!Settle, Atomic!SettleWin
<1>5. CASE ProcessLoss(p)
  <2>1. "PROCESSED" \in Statuses
    BY DEF Statuses
  <2>2. Atomic!Record(req[p], "PROCESSED", "none", 0)
    BY <1>1, <1>2, <1>5, <2>1, RecordRefines DEF ProcessLoss
  <2> QED  BY <1>2, <1>5, <2>2 DEF ProcessLoss, Atomic!Settle, Atomic!SettleLoss
<1> QED  BY <1>3, <1>4, <1>5

LEMMA ReversalsRefine ==
  ASSUME AtomicInv, AtomicInv', NEW p \in Processes,
         \/ MarkPendingReference(p) \/ RefuseReversal(p)
         \/ SettleRefund(p) \/ SettleRollback(p)
  PROVE  UNCHANGED db \/ Atomic!Settle(req[p])
<1> DEFINE r == req[p]
           v == verdict[p]
           i == ref[p]
<1>1. pc[p] = "settle" /\ pc[p] \in Inserted
  BY DEF MarkPendingReference, RefuseReversal, SettleRefund, SettleRollback, Inserted
<1>2. /\ Atomic!Fresh(r) /\ Atomic!Accepted(r) /\ VerdictHolds(r, v, i)
      /\ r.kind \in Reversals /\ r.kind # "LOSS"
  BY <1>1, Settleable DEF AtomicInv, VerdictsStand, VerdictHolds, Reversals
<1>3. r.kind \in Atomic!Reversals
  BY <1>2, SameVocabulary
<1>4. RefersTo(r, i) => i \in DOMAIN txs /\ txs[i].req.amount \in Int
  <2> SUFFICES ASSUME i \in DOMAIN txs PROVE txs[i].req.amount \in Int
    BY DEF RefersTo
  <2>1. txs \in Seq(Row)
    BY DEF AtomicInv, ClaimInv, LockInv, TypeOK, DbTypeOK
  <2>2. txs[i] \in Row
    BY <2>1
  <2>3. txs[i].req \in Request
    BY <2>2, RequestsAssumption DEF Row
  <2> QED  BY <2>3 DEF Request
<1>5. CASE MarkPendingReference(p)
  <2>1. Atomic!Record(r, "PENDING_REFERENCE", "none", 0)
    <3>1. "PENDING_REFERENCE" \in Statuses
      BY DEF Statuses
    <3> QED  BY <1>1, <1>5, <3>1, RecordRefines DEF MarkPendingReference
  <2>2. \A t \in Atomic!Referenced(r) : Outcomes[t].status = "PENDING_REFERENCE"
    BY <1>2, <1>5, SameRows DEF MarkPendingReference, VerdictHolds
  <2>3. Atomic!Postpone(r)
    BY <1>3, <2>1, <2>2 DEF Atomic!Postpone, Outcomes
  <2> QED  BY <1>2, <2>3 DEF Atomic!Settle
<1>6. CASE RefuseReversal(p)
  <2>1. Atomic!Reject(r, v)
    BY <1>1, <1>6, RejectRefines DEF RefuseReversal
  <2>2. v \in {"REFERENCE_NOT_FOUND", "REFERENCE_ALREADY_REVERSED", "AMOUNT_MISMATCH"}
    BY <1>2, <1>6 DEF RefuseReversal, VerdictHolds, Refusals, FailureCodes
  <2>3. CASE v = "REFERENCE_NOT_FOUND"
    <3>1. PICK t \in DOMAIN txs :
            /\ Names(r, t)
            /\ \/ txs[t].status = "REJECTED"
               \/ txs[t].status = "PROCESSED" /\ txs[t].req.kind \notin ReversibleBy(r.kind)
      BY <1>2, <2>3 DEF VerdictHolds
    <3>2. /\ t \in Atomic!Referenced(r) /\ Outcomes[t].req = txs[t].req
          /\ Outcomes[t].status = txs[t].status
          /\ Atomic!ReversibleBy(r.kind) = ReversibleBy(r.kind)
      BY <3>1, SameRows, SameVocabulary
    <3>3. Atomic!Reject(r, "REFERENCE_NOT_FOUND")
      BY <2>1, <2>3 DEF Atomic!Reject, Atomic!Record, Atomic!Outcome
    <3>4. Atomic!RefuseReference(r)
      BY <1>3, <3>1, <3>2, <3>3 DEF Atomic!RefuseReference, Outcomes
    <3> QED  BY <1>2, <3>4 DEF Atomic!Settle
  <2>4. CASE v \in {"REFERENCE_ALREADY_REVERSED", "AMOUNT_MISMATCH"}
    <3>1. /\ RefersTo(r, i)
          /\ \/ v = "REFERENCE_ALREADY_REVERSED" /\ ~NotReversed(r)
             \/ /\ v = "AMOUNT_MISMATCH" /\ NotReversed(r)
                /\ r.kind = "REFUND" /\ r.amount # txs[i].req.amount
      BY <1>2, <2>4 DEF VerdictHolds
    <3>2. CASE v = "REFERENCE_ALREADY_REVERSED"
      <4>1. Atomic!Reject(r, "REFERENCE_ALREADY_REVERSED")
        BY <2>1, <3>2 DEF Atomic!Reject, Atomic!Record, Atomic!Outcome
      <4> QED  BY <1>2, <1>4, <3>1, <3>2, <4>1, ReverseRefines DEF Atomic!Settle
    <3>3. CASE v = "AMOUNT_MISMATCH"
      <4>1. Atomic!Reject(r, "AMOUNT_MISMATCH")
        BY <2>1, <3>3 DEF Atomic!Reject, Atomic!Record, Atomic!Outcome
      <4> QED  BY <1>2, <1>4, <3>1, <3>3, <4>1, ReverseRefines DEF Atomic!Settle
    <3> QED  BY <2>4, <3>2, <3>3
  <2> QED  BY <2>2, <2>3, <2>4
<1>7. ASSUME v = "move"
      PROVE  RefersTo(r, i) /\ NotReversed(r) /\ AmountAgrees(r, i)
  BY <1>2, <1>7 DEF VerdictHolds
<1>8. CASE SettleRefund(p)
  <2>1. /\ RefersTo(r, i) /\ NotReversed(r) /\ AmountAgrees(r, i) /\ i \in DOMAIN txs
        /\ r.amount = txs[i].req.amount /\ txs[i].req.kind = "BET"
    BY <1>4, <1>7, <1>8 DEF SettleRefund, AmountAgrees, RefersTo, ReversibleBy
  <2>2. UNCHANGED db \/ Atomic!Pay(r, txs[i].req.amount)
    BY <1>1, <1>2, <1>4, <1>8, <2>1, CreditRefines DEF SettleRefund
  <2>3. Atomic!Pay(r, txs[i].req.amount) => Atomic!Reverse(r)
    BY <1>2, <2>1, ReverseRefines
  <2> QED  BY <1>2, <2>2, <2>3 DEF Atomic!Settle
<1>9. CASE SettleRollback(p)
  <2>1. RefersTo(r, i) /\ NotReversed(r) /\ AmountAgrees(r, i) /\ i \in DOMAIN txs
    BY <1>4, <1>7, <1>9 DEF SettleRollback
  <2>2. CASE txs[i].req.kind = "BET" /\ Credit(p, txs[i].req.amount)
    <3>1. UNCHANGED db \/ Atomic!Pay(r, txs[i].req.amount)
      BY <1>1, <1>2, <1>4, <2>1, <2>2, CreditRefines
    <3>2. Atomic!Pay(r, txs[i].req.amount) => Atomic!Reverse(r)
      BY <1>2, <2>1, <2>2, ReverseRefines
    <3> QED  BY <1>2, <3>1, <3>2 DEF Atomic!Settle
  <2>3. CASE /\ txs[i].req.kind \in {"WIN", "REFUND"}
             /\ Debit(p, txs[i].req.amount, "INSUFFICIENT_BALANCE_REVERSAL")
    <3>1. UNCHANGED db \/ Atomic!Charge(r, txs[i].req.amount, "INSUFFICIENT_BALANCE_REVERSAL")
      BY <1>1, <1>2, <1>4, <2>1, <2>3, DebitRefines DEF FailureCodes
    <3>2. Atomic!Charge(r, txs[i].req.amount, "INSUFFICIENT_BALANCE_REVERSAL") => Atomic!Reverse(r)
      BY <1>2, <2>1, <2>3, ReverseRefines
    <3> QED  BY <1>2, <3>1, <3>2 DEF Atomic!Settle
  <2> QED  BY <1>9, <2>2, <2>3 DEF SettleRollback, Abort
<1> QED  BY <1>5, <1>6, <1>8, <1>9

\* Every step is one settlement, or none.
LEMMA StepRefines ==
  ASSUME AtomicInv, AtomicInv', [Next]_vars
  PROVE  UNCHANGED db \/ \E r \in Requests : Atomic!Settle(r)
<1>1. ASSUME NEW p \in Processes, Step(p)
      PROVE  UNCHANGED db \/ \E r \in Requests : Atomic!Settle(r)
  <2>1. CASE UNCHANGED db
    BY <2>1
  <2>2. CASE Atomic!Settle(req[p])
    <3>1. pc[p] # "idle"
      BY <1>1 DEF Step, Lookup, Begin, LockWallet, TryCreate, AnswerRaced, ProcessBet, ProcessWin,
         ProcessLoss, FindReference, FindReversal, MarkPendingReference, RefuseReversal,
         SettleRefund, SettleRollback
    <3>2. PICK r \in Requests : r = req[p]
      BY <3>1 DEF AtomicInv, ClaimInv, LockInv, TypeOK, PhaseOK
    <3>3. Atomic!Fresh(r) /\ Atomic!Accepted(r)
      BY <2>2, <3>2 DEF Atomic!Settle
    <3>4. CASE Atomic!SettleBet(req[p]) \/ Atomic!SettleWin(req[p]) \/ Atomic!SettleLoss(req[p])
      <4>1. Atomic!SettleBet(r) \/ Atomic!SettleWin(r) \/ Atomic!SettleLoss(r)
        BY <3>2, <3>4
        DEF Atomic!SettleBet, Atomic!SettleWin, Atomic!SettleLoss, Atomic!Pay, Atomic!Charge,
            Atomic!Reject, Atomic!Record
      <4> QED  BY <3>3, <4>1 DEF Atomic!Settle
    <3>5. CASE Atomic!Postpone(req[p])
      <4>1. Atomic!Postpone(r)
        BY <3>2, <3>5 DEF Atomic!Postpone, Atomic!Record
      <4> QED  BY <3>3, <4>1 DEF Atomic!Settle
    <3>6. CASE Atomic!RefuseReference(req[p])
      <4>1. Atomic!RefuseReference(r)
        BY <3>2, <3>6 DEF Atomic!RefuseReference, Atomic!Reject, Atomic!Record
      <4> QED  BY <3>3, <4>1 DEF Atomic!Settle
    <3>7. CASE Atomic!Reverse(req[p])
      <4> DEFINE Undo(u, i) ==
                   LET original == Outcomes[i].req
                       same == u.kind = "REFUND" => original.amount = u.amount
                   IN  \/ Atomic!AlreadyReversed(u) /\ Atomic!Reject(u, "REFERENCE_ALREADY_REVERSED")
                       \/ /\ ~Atomic!AlreadyReversed(u) /\ ~same
                          /\ Atomic!Reject(u, "AMOUNT_MISMATCH")
                       \/ /\ ~Atomic!AlreadyReversed(u) /\ same
                          /\ \/ original.kind = "BET" /\ Atomic!Pay(u, original.amount)
                             \/ /\ original.kind # "BET"
                                /\ Atomic!Charge(u, original.amount, "INSUFFICIENT_BALANCE_REVERSAL")
      <4>1. PICK i \in Atomic!Referenced(req[p]) :
              /\ req[p].kind \in Atomic!Reversals /\ Outcomes[i].status = "PROCESSED"
              /\ Outcomes[i].req.kind \in Atomic!ReversibleBy(req[p].kind)
              /\ Undo(req[p], i)
        BY <3>7 DEF Atomic!Reverse, Outcomes
      <4>2. Undo(r, i)
        BY <3>2, <4>1 DEF Atomic!Pay, Atomic!Charge, Atomic!Reject, Atomic!Record
      <4>3. Atomic!Reverse(r)
        BY <3>2, <4>1, <4>2 DEF Atomic!Reverse, Outcomes
      <4> QED  BY <3>3, <4>3 DEF Atomic!Settle
    <3>8. \/ Atomic!SettleBet(req[p]) \/ Atomic!SettleWin(req[p]) \/ Atomic!SettleLoss(req[p])
          \/ Atomic!Postpone(req[p]) \/ Atomic!RefuseReference(req[p]) \/ Atomic!Reverse(req[p])
      BY <2>2 DEF Atomic!Settle
    <3> QED  BY <3>4, <3>5, <3>6, <3>7, <3>8
  <2>3. CASE \/ Lookup(p) \/ Begin(p) \/ LockWallet(p) \/ TryCreate(p) \/ AnswerRaced(p)
             \/ FindReference(p) \/ FindReversal(p)
    BY <2>3 DEF Lookup, Begin, LockWallet, TryCreate, AnswerRaced, FindReference, FindReversal,
       HandleExisting, Abort
  <2> QED  BY <1>1, <2>1, <2>2, <2>3, WagersRefine, ReversalsRefine DEF Step
<1>2. ASSUME NEW p \in Processes, Fail(p) \/ (\E r \in Requests : Receive(p, r))
      PROVE  UNCHANGED db
  BY <1>2 DEF Fail, Receive
<1>3. CASE UNCHANGED vars
  BY <1>3 DEF vars, db
<1> QED  BY <1>1, <1>2, <1>3 DEF Next

\* If no two requests carry one reference into two wallets, then for every set of
\* callers, requests, wallets and every pool size the concurrent use case implements
\* the atomic one: each commit is one indivisible settlement against the current
\* balances and the wagers settled before it.
THEOREM UseCaseIsAtomic ==
  ASSUME ReferencesStayInWallet
  PROVE  Spec => ImplementsAtomic
<1>1. Init => Atomic!Init
  <2> SUFFICES ASSUME Init PROVE Atomic!Init
    OBVIOUS
  <2>1. Balances = InitialBalance
    BY WalletsAssumption DEF Init, Balances
  <2>2. Outcomes = <<>>
    BY DEF Init, Outcomes
  <2> QED  BY <2>1, <2>2 DEF Atomic!Init, Balances, Outcomes
<1>2. AtomicInv /\ AtomicInv' /\ [Next]_vars => [Atomic!Next]_(Atomic!avars)
  <2> SUFFICES ASSUME AtomicInv, AtomicInv', [Next]_vars PROVE [Atomic!Next]_(Atomic!avars)
    OBVIOUS
  <2>1. CASE UNCHANGED db
    <3>1. wallets' = wallets /\ txs' = txs /\ ledger' = ledger
      BY <2>1 DEF db
    <3>2. Balances' = Balances /\ Outcomes' = Outcomes
      BY <3>1 DEF Balances, Outcomes, AbstractOutcome, Moves, EntryOf
    <3> QED  BY <3>2 DEF Atomic!avars, Balances, Outcomes
  <2>2. CASE \E r \in Requests : Atomic!Settle(r)
    BY <2>2 DEF Atomic!Next
  <2> QED  BY <2>1, <2>2, StepRefines
<1> QED  BY <1>1, <1>2, AlwaysAtomicInv, PTL DEF Spec, ImplementsAtomic, Atomic!Spec

\* The only row that waits for its reference is one MarkPendingReference wrote, when
\* the verdict to wait stood.
LEMMA NewPendingRow ==
  ASSUME AtomicInv, NEW p \in Processes, Step(p), NEW row,
         txs' = Append(txs, row), row.status = "PENDING_REFERENCE"
  PROVE  /\ row.req = req[p]
         /\ \A t \in DOMAIN txs : Names(req[p], t) => txs[t].status = "PENDING_REFERENCE"
<1>1. ASSUME NEW x, txs' = Append(txs, x) PROVE x = row
  <2> DEFINE S == Row \cup {x, row}
  <2>1. txs \in Seq(S) /\ x \in S /\ row \in S
    BY DEF AtomicInv, ClaimInv, LockInv, TypeOK, DbTypeOK
  <2> HIDE DEF S
  <2>2. Append(txs, x)[Len(txs) + 1] = x /\ Append(txs, row)[Len(txs) + 1] = row
    BY <2>1, AppendProperties
  <2> QED  BY <1>1, <2>2
<1>2. txs' # txs
  <2>1. \E n \in Nat : DOMAIN txs = 1..n
    BY DEF AtomicInv, ClaimInv, LockInv, TypeOK, DbTypeOK
  <2> QED  BY <2>1 DEF AtomicInv, ClaimInv, LockInv, TypeOK, DbTypeOK
<1>3. ASSUME NEW s, NEW c, NEW b, NEW x, txs' = Append(txs, TxRow(req[p], s, c, b, x)),
             s # "PENDING_REFERENCE"
      PROVE  FALSE
  BY <1>1, <1>3 DEF TxRow
<1>4. \A code : ~RejectTransaction(p, code)
  BY <1>3 DEF RejectTransaction
<1>5. \A direction, amount : ~CommitSuccess(p, direction, amount)
  BY <1>2, <1>3 DEF CommitSuccess, Abort, db
<1>6. \A amount : ~Credit(p, amount)
  BY <1>2, <1>5 DEF Credit, Abort, db
<1>7. \A amount, code : ~Debit(p, amount, code)
  BY <1>4, <1>5 DEF Debit
<1>8. MarkPendingReference(p)
  <2>1. ~ProcessBet(p) /\ ~ProcessWin(p) /\ ~RefuseReversal(p) /\ ~SettleRefund(p)
    BY <1>4, <1>6, <1>7 DEF ProcessBet, ProcessWin, RefuseReversal, SettleRefund
  <2>2. ~SettleRollback(p)
    BY <1>2, <1>6, <1>7 DEF SettleRollback, Abort, db
  <2>3. ~ProcessLoss(p)
    BY <1>3 DEF ProcessLoss
  <2>4. /\ ~Lookup(p) /\ ~Begin(p) /\ ~LockWallet(p) /\ ~TryCreate(p) /\ ~AnswerRaced(p)
        /\ ~FindReference(p) /\ ~FindReversal(p)
    BY <1>2 DEF Lookup, Begin, LockWallet, TryCreate, AnswerRaced, FindReference, FindReversal,
       HandleExisting, Abort, db
  <2> QED  BY <2>1, <2>2, <2>3, <2>4 DEF Step
<1>9. row.req = req[p]
  BY <1>1, <1>8 DEF MarkPendingReference, TxRow
<1> QED  BY <1>8, <1>9 DEF MarkPendingReference, AtomicInv, VerdictsStand, VerdictHolds

\* Rows never change, and what a new one waits for is unsettled.
LEMMA NextPendingOnlyIfUnsettled ==
  ASSUME AtomicInv, PendingOnlyIfUnsettled, [Next]_vars
  PROVE  PendingOnlyIfUnsettled'
<1>1. CASE txs' = txs
  BY <1>1 DEF PendingOnlyIfUnsettled
<1>2. CASE txs' # txs
  <2>1. PICK p \in Processes : Step(p)
    BY <1>2 DEF Next, Fail, Receive, vars, db
  <2>2. PICK row \in Row : txs' = Append(txs, row)
    BY <1>2, <2>1, NewRow DEF AtomicInv, ClaimInv
  <2>3. txs \in Seq(Row)
    BY DEF AtomicInv, ClaimInv, LockInv, TypeOK, DbTypeOK
  <2>4. /\ DOMAIN txs = 1..Len(txs) /\ DOMAIN txs' = 1..(Len(txs)+1) /\ Len(txs) \in Nat
        /\ txs'[Len(txs)+1] = row /\ \A t \in 1..Len(txs) : txs'[t] = txs[t]
    BY <2>2, <2>3, AppendProperties
  <2> SUFFICES ASSUME NEW t \in 1..(Len(txs)+1), NEW o \in 1..(t-1),
                      txs'[t].status = "PENDING_REFERENCE",
                      txs'[o].req.provider = txs'[t].req.provider,
                      txs'[o].req.ext = txs'[t].req.ref
               PROVE  txs'[o].status = "PENDING_REFERENCE"
    BY <2>4 DEF PendingOnlyIfUnsettled
  <2>5. o \in DOMAIN txs /\ txs'[o] = txs[o]
    BY <2>4
  <2>6. CASE t = Len(txs) + 1
    <3>1. /\ row.req = req[p]
          /\ \A u \in DOMAIN txs : Names(req[p], u) => txs[u].status = "PENDING_REFERENCE"
      BY <2>1, <2>2, <2>4, <2>6, NewPendingRow
    <3> QED  BY <2>4, <2>5, <2>6, <3>1 DEF Names
  <2>7. CASE t # Len(txs) + 1
    <3>1. t \in DOMAIN txs /\ txs'[t] = txs[t]
      BY <2>4, <2>7
    <3> QED  BY <2>5, <3>1 DEF PendingOnlyIfUnsettled
  <2> QED  BY <2>6, <2>7
<1> QED  BY <1>1, <1>2

\* A reversal waits for its reference only if the reference was not settled when it
\* committed: what it looked up was still so when it wrote.
THEOREM AlwaysPendingOnlyIfUnsettled ==
  ASSUME ReferencesStayInWallet
  PROVE  Spec => []PendingOnlyIfUnsettled
<1>1. Init => PendingOnlyIfUnsettled
  BY DEF Init, PendingOnlyIfUnsettled
<1>2. AtomicInv /\ PendingOnlyIfUnsettled /\ [Next]_vars => PendingOnlyIfUnsettled'
  BY NextPendingOnlyIfUnsettled
<1> QED  BY <1>1, <1>2, AlwaysAtomicInv, PTL DEF Spec
=============================================================================

----------------------- MODULE ProcessWagerInvariants -----------------------
(***************************************************************************)
(* Money, idempotency, answers, rows and entries, reversals and events, for  *)
(* every set of callers and requests, proved from the lock invariant of      *)
(* ProcessWagerProofs.                                                       *)
(***************************************************************************)
EXTENDS ProcessWagerProofs, FiniteSetTheorems

(***************************************************************************)
(* Money.                                                                   *)
(***************************************************************************)
LedgerInv == LockInv /\ LedgerExplainsBalance

\* An opened wallet's ledger explains its balance.
LEMMA InitLedger == Init => LedgerExplainsBalance
<1> SUFFICES ASSUME Init, NEW w \in Wallets
             PROVE  LET L == ledger[w]
                        n == Len(L)
                    IN  /\ \A i \in 1..n :
                             /\ L[i].before = IF i = 1 THEN 0 ELSE L[i-1].after
                             /\ L[i].after = Moved(L[i].before, L[i].direction, L[i].amount)
                        /\ wallets[w].balance = IF n = 0 THEN 0 ELSE L[n].after
                        /\ wallets[w].version = 1 + n - Len(Opened(InitialBalance[w]))
  BY DEF LedgerExplainsBalance
<1>1. /\ wallets[w].balance = InitialBalance[w] /\ wallets[w].version = 1
      /\ ledger[w] = Opened(InitialBalance[w])
  BY DEF Init
<1>2. CASE InitialBalance[w] = 0
  BY <1>1, <1>2 DEF Opened
<1>3. CASE InitialBalance[w] # 0
  <2> DEFINE e == LedgerEntry(NoTx, "CREDIT", InitialBalance[w], 0)
             M == <<e>>
  <2>1. ledger[w] = M /\ Opened(InitialBalance[w]) = M
    BY <1>1, <1>3 DEF Opened
  <2>2. Len(M) = 1 /\ M[1] = e /\ \A i \in 1..1 : i = 1
    OBVIOUS
  <2>3. e.before = 0 /\ e.after = InitialBalance[w] /\ e.after = Moved(e.before, e.direction, e.amount)
    BY WalletsAssumption, MaxIntAssumption DEF LedgerEntry, Moved
  <2> HIDE DEF e, M
  <2> QED  BY <1>1, <2>1, <2>2, <2>3
<1> QED  BY <1>2, <1>3

\* A commit appends one entry that starts at the wallet's balance.
LEMMA PaysLedger ==
  ASSUME LedgerInv, NEW p \in Processes, Pays(p)
  PROVE  LedgerExplainsBalance'
<1> USE DEF LedgerInv, LockInv
<1>1. PICK row \in Row, entry \in Entry : PaysEntry(p, row, entry)
  BY DEF Pays
<1> DEFINE v == req[p].wallet
<1>2. pc[p] \in Inserted
  BY <1>1 DEF PaysEntry, Commits
<1>3. v \in Wallets /\ snap[p] = wallets[v] /\ wallets[v] \in WalletRow
  BY <1>2, Settling DEF SnapshotCurrent, TypeOK, DbTypeOK
<1>4. /\ entry.before = wallets[v].balance
      /\ entry.after = Moved(entry.before, entry.direction, entry.amount)
      /\ wallets' = [wallets EXCEPT ![v] = [balance |-> entry.after,
                                            version |-> wallets[v].version + 1]]
      /\ ledger' = [ledger EXCEPT ![v] = Append(@, entry)]
  BY <1>1, <1>3 DEF PaysEntry
<1> SUFFICES ASSUME NEW w \in Wallets
             PROVE  LET L == ledger'[w]
                        n == Len(L)
                    IN  /\ \A i \in 1..n :
                             /\ L[i].before = IF i = 1 THEN 0 ELSE L[i-1].after
                             /\ L[i].after = Moved(L[i].before, L[i].direction, L[i].amount)
                        /\ wallets'[w].balance = IF n = 0 THEN 0 ELSE L[n].after
                        /\ wallets'[w].version = 1 + n - Len(Opened(InitialBalance[w]))
  BY DEF LedgerExplainsBalance, Moved, Opened, LedgerEntry
<1>5. CASE w # v
  <2>1. ledger'[w] = ledger[w] /\ wallets'[w] = wallets[w]
    BY <1>3, <1>4, <1>5 DEF TypeOK, DbTypeOK
  <2>2. LET L == ledger[w]
            n == Len(L)
        IN  /\ \A i \in 1..n :
                 /\ L[i].before = IF i = 1 THEN 0 ELSE L[i-1].after
                 /\ L[i].after = Moved(L[i].before, L[i].direction, L[i].amount)
            /\ wallets[w].balance = IF n = 0 THEN 0 ELSE L[n].after
            /\ wallets[w].version = 1 + n - Len(Opened(InitialBalance[w]))
    BY DEF LedgerExplainsBalance
  <2> QED  BY <2>1, <2>2, Zenon
<1>6. CASE w = v
  <2> DEFINE L == ledger[v]
             n == Len(L)
             M == ledger'[v]
  <2>1. L \in Seq(Entry) /\ n \in Nat /\ ledger \in [Wallets -> Seq(Entry)]
    BY <1>3 DEF TypeOK, DbTypeOK
  <2>2. M = Append(L, entry)
    BY <1>3, <1>4, <2>1
  <2>3. /\ \A i \in 1..n :
             /\ L[i].before = IF i = 1 THEN 0 ELSE L[i-1].after
             /\ L[i].after = Moved(L[i].before, L[i].direction, L[i].amount)
        /\ wallets[v].balance = IF n = 0 THEN 0 ELSE L[n].after
        /\ wallets[v].version = 1 + n - Len(Opened(InitialBalance[v]))
    BY <1>3 DEF LedgerExplainsBalance
  <2>4. Len(M) = n + 1 /\ M[n+1] = entry /\ \A i \in 1..n : M[i] = L[i]
    BY <2>1, <2>2, AppendProperties
  <2>5. /\ wallets'[v].balance = entry.after
        /\ wallets'[v].version = wallets[v].version + 1
    BY <1>3, <1>4 DEF TypeOK, DbTypeOK
  <2>6. Len(Opened(InitialBalance[v])) \in Nat
    BY DEF Opened
  <2> HIDE DEF L, M, n
  <2>7. ASSUME NEW i \in 1..(n+1)
        PROVE  /\ M[i].before = IF i = 1 THEN 0 ELSE M[i-1].after
               /\ M[i].after = Moved(M[i].before, M[i].direction, M[i].amount)
    <3>1. CASE i \in 1..n
      <4>1. i # 1 => i - 1 \in 1..n
        BY <2>1, <3>1
      <4> QED  BY <2>3, <2>4, <3>1, <4>1
    <3>2. CASE i = n + 1
      <4>1. i # 1 => n \in 1..n /\ n # 0 /\ i - 1 = n
        BY <2>1, <3>2
      <4>2. i = 1 => n = 0
        BY <2>1, <3>2
      <4> QED  BY <1>4, <2>3, <2>4, <3>2, <4>1, <4>2
    <3> QED  BY <2>1, <3>1, <3>2
  <2>8. wallets'[v].version = 1 + (n + 1) - Len(Opened(InitialBalance[v]))
    BY <2>1, <2>3, <2>5, <2>6
  <2>9. n + 1 # 0
    BY <2>1
  <2> QED  BY <1>6, <2>4, <2>5, <2>7, <2>8, <2>9 DEF M
<1> QED  BY <1>5, <1>6

\* The ledger invariant is inductive.
LEMMA NextLedger == LedgerInv /\ [Next]_vars => LedgerInv'
<1> SUFFICES ASSUME LedgerInv, [Next]_vars PROVE LedgerInv'
  OBVIOUS
<1>1. LockInv'
  BY NextLockInv DEF LedgerInv
<1>2. CASE UNCHANGED <<wallets, ledger>>
  BY <1>1, <1>2 DEF LedgerInv, LedgerExplainsBalance
<1>3. ASSUME NEW p \in Processes, Step(p) PROVE LedgerInv'
  <2>1. UNCHANGED <<wallets, ledger>> \/ Pays(p)
    BY <1>3, StepShape DEF LedgerInv, LockInv, Quiet, Locks, Claims, Records, db
  <2> QED  BY <1>1, <1>2, <2>1, PaysLedger DEF LedgerInv
<1>4. ASSUME NEW p \in Processes, Fail(p) \/ (\E r \in Requests : Receive(p, r))
      PROVE  LedgerInv'
  BY <1>2, <1>4 DEF Fail, Receive, db
<1>5. CASE UNCHANGED vars
  BY <1>2, <1>5 DEF vars
<1> QED  BY <1>3, <1>4, <1>5 DEF Next

\* Every movement is in the ledger, in order, and the ledger adds up to the
\* balance, whatever the callers do.
THEOREM AlwaysLedgerExplainsBalance == Spec => []LedgerExplainsBalance
<1>1. Init => LedgerInv
  BY InitLockInv, InitLedger DEF LedgerInv
<1>2. LedgerInv => LedgerExplainsBalance
  BY DEF LedgerInv
<1> QED  BY <1>1, <1>2, NextLedger, PTL DEF Spec

\* A wager is decided by the balance of the moment it commits.
THEOREM AlwaysDecisionsAreCurrent == Spec => DecisionsAreCurrent
<1>1. ASSUME LockInv, [Next]_vars PROVE [DecisionIsCurrent]_vars
  <2> USE DEF LockInv
  <2> SUFFICES ASSUME Next, Len(txs') > Len(txs) PROVE DecisionIsCurrent
    BY <1>1 DEF DecisionIsCurrent
  <2>1. txs' # txs
    BY DEF TypeOK, DbTypeOK
  <2>2. PICK p \in Processes : Step(p)
    BY <2>1 DEF Next, Receive, Fail, db
  <2>3. PICK row \in Row : Commits(p, row)
    BY <1>1, <2>1, <2>2, StepShape DEF Quiet, Locks, Claims, Records, Pays, PaysEntry, db
  <2>4. txs'[Len(txs')] = row
    BY <2>3 DEF Commits, TypeOK, DbTypeOK
  <2>5. snap[p] = wallets[req[p].wallet]
    BY <2>3, <1>1, Settling DEF Commits, SnapshotCurrent
  <2> QED  BY <2>3, <2>4, <2>5 DEF DecisionIsCurrent, Commits
<1> QED  BY <1>1, AlwaysLockInv, PTL DEF Spec, DecisionsAreCurrent

(***************************************************************************)
(* Idempotency.                                                             *)
(***************************************************************************)
SameClaim(r, s) == r.key = s.key \/ <<r.provider, r.ext>> = <<s.provider, s.ext>>

\* An inserted row's key and external id are taken by no committed row and by no
\* other inserted row.
ClaimsFree ==
  \A p \in Processes : pc[p] \in Inserted =>
    \A i \in DOMAIN txs : ~SameClaim(txs[i].req, req[p])
ClaimsExclusive ==
  \A p, q \in Processes :
    p # q /\ pc[p] \in Inserted /\ pc[q] \in Inserted => ~SameClaim(req[p], req[q])

ClaimInv == LockInv /\ ClaimsFree /\ ClaimsExclusive /\ ClaimedOnce

\* Lookups that find nothing mean that nobody has committed the claim.
LEMMA ClaimFindsNothing ==
  ASSUME TypeOK, NEW r,
         FindByIdempotencyKey(r.key) = NoTx,
         FindByProviderAndExternalID(r.provider, r.ext) = NoTx
  PROVE  \A i \in DOMAIN txs : ~SameClaim(txs[i].req, r)
<1>1. \A rows : rows \subseteq DOMAIN txs /\ TheRow(rows) = NoTx => rows = {}
  <2>1. NoTx \notin DOMAIN txs
    BY DEF TypeOK, DbTypeOK, NoTx
  <2>2. \A rows : rows # {} => TheRow(rows) \in rows
    BY DEF TheRow
  <2> QED  BY <2>1, <2>2
<1>2. {i \in DOMAIN txs : txs[i].req.key = r.key} = {}
  BY <1>1 DEF FindByIdempotencyKey
<1>3. {i \in DOMAIN txs : txs[i].req.provider = r.provider /\ txs[i].req.ext = r.ext} = {}
  BY <1>1 DEF FindByProviderAndExternalID
<1> QED  BY <1>2, <1>3 DEF SameClaim

\* A step of p's own that inserts nothing and commits nothing.
LEMMA KeepsClaims ==
  ASSUME ClaimInv, NEW p \in Processes, Own(p), txs' = txs, LockInv',
         pc'[p] \in Inserted => pc[p] \in Inserted
  PROVE  ClaimInv'
<1>1. req' = req /\ \A q \in Processes : pc'[q] \in Inserted => pc[q] \in Inserted
  BY DEF Own, ClaimInv, LockInv, TypeOK, ProcessTypeOK
<1>2. ClaimsFree' /\ ClaimsExclusive' /\ ClaimedOnce'
  BY <1>1 DEF ClaimInv, ClaimsFree, ClaimsExclusive, ClaimedOnce
<1> QED  BY <1>2 DEF ClaimInv

\* A claim that waits for nobody keeps the claims exclusive.
LEMMA ClaimsClaims ==
  ASSUME ClaimInv, NEW p \in Processes, Claims(p), LockInv'
  PROVE  ClaimInv'
<1>1. /\ req' = req /\ txs' = txs /\ ~InsertConflicts(p)
      /\ \A q \in Processes : q # p => pc'[q] = pc[q]
  BY DEF Claims, Own, db, ClaimInv, LockInv, TypeOK, ProcessTypeOK
<1>2. \A i \in DOMAIN txs : ~SameClaim(txs[i].req, req[p])
  BY ClaimFindsNothing DEF Claims, ClaimInv, LockInv
<1>3. \A q \in Processes : q # p /\ pc[q] \in Inserted =>
        ~SameClaim(req[p], req[q]) /\ ~SameClaim(req[q], req[p])
  BY <1>1 DEF InsertConflicts, KeyInDoubt, SameClaim
<1>4. ClaimsFree'
  BY <1>1, <1>2 DEF ClaimInv, ClaimsFree
<1>5. ClaimsExclusive'
  BY <1>1, <1>3 DEF ClaimInv, ClaimsExclusive
<1>6. ClaimedOnce'
  BY <1>1 DEF ClaimInv, ClaimedOnce
<1> QED  BY <1>4, <1>5, <1>6 DEF ClaimInv

\* The commit of one claim leaves the others free.
LEMMA CommitsClaims ==
  ASSUME ClaimInv, NEW p \in Processes, NEW row \in Row, Commits(p, row), LockInv'
  PROVE  ClaimInv'
<1> USE DEF ClaimInv, LockInv
<1>1. /\ req' = req /\ row.req = req[p] /\ pc[p] \in Inserted /\ pc'[p] \notin Inserted
      /\ \A q \in Processes : q # p => pc'[q] = pc[q]
  BY DEF Commits, Own, Inserted, TypeOK, ProcessTypeOK
<1>2. /\ Len(txs) \in Nat /\ DOMAIN txs = 1..Len(txs) /\ DOMAIN txs' = 1..(Len(txs)+1)
      /\ txs'[Len(txs)+1] = row /\ \A i \in 1..Len(txs) : txs'[i] = txs[i]
  BY DEF Commits, TypeOK, DbTypeOK
<1>3. \A i \in 1..Len(txs) : ~SameClaim(txs[i].req, row.req)
  BY <1>1, <1>2 DEF ClaimsFree
<1>4. ClaimsFree'
  <2> SUFFICES ASSUME NEW q \in Processes, pc'[q] \in Inserted, NEW i \in DOMAIN txs'
               PROVE  ~SameClaim(txs'[i].req, req'[q])
    BY DEF ClaimsFree, Inserted, SameClaim
  <2>1. q # p /\ pc[q] \in Inserted
    BY <1>1
  <2>2. CASE i \in 1..Len(txs)
    BY <1>1, <1>2, <2>1, <2>2 DEF ClaimsFree
  <2>3. CASE i = Len(txs) + 1
    BY <1>1, <1>2, <2>1, <2>3 DEF ClaimsExclusive
  <2> QED  BY <1>2, <2>2, <2>3
<1>5. ClaimsExclusive'
  BY <1>1 DEF ClaimsExclusive
<1>6. ClaimedOnce'
  <2> SUFFICES ASSUME NEW i \in DOMAIN txs', NEW j \in DOMAIN txs', i # j
               PROVE  /\ txs'[i].req.key # txs'[j].req.key
                      /\ <<txs'[i].req.provider, txs'[i].req.ext>>
                           # <<txs'[j].req.provider, txs'[j].req.ext>>
    BY DEF ClaimedOnce
  <2>1. CASE i \in 1..Len(txs) /\ j \in 1..Len(txs)
    BY <1>2, <2>1 DEF ClaimedOnce
  <2>2. CASE i = Len(txs) + 1 /\ j \in 1..Len(txs)
    BY <1>2, <1>3, <2>2 DEF SameClaim
  <2>3. CASE j = Len(txs) + 1 /\ i \in 1..Len(txs)
    BY <1>2, <1>3, <2>3 DEF SameClaim
  <2> QED  BY <1>2, <2>1, <2>2, <2>3
<1> QED  BY <1>4, <1>5, <1>6

\* The claim invariant is inductive.
LEMMA NextClaimInv == ClaimInv /\ [Next]_vars => ClaimInv'
<1> SUFFICES ASSUME ClaimInv, [Next]_vars PROVE ClaimInv'
  OBVIOUS
<1>1. LockInv' /\ TypeOK
  BY NextLockInv DEF ClaimInv, LockInv
<1>2. ASSUME NEW p \in Processes, Step(p) PROVE ClaimInv'
  <2>1. CASE Quiet(p)
    BY <1>1, <2>1, KeepsClaims DEF Quiet, db
  <2>2. CASE Locks(p)
    BY <1>1, <2>2, KeepsClaims DEF Locks, db, Inserted
  <2>3. CASE Claims(p)
    BY <1>1, <2>3, ClaimsClaims
  <2>4. CASE Records(p)
    BY <1>1, <2>4, CommitsClaims DEF Records
  <2>5. CASE Pays(p)
    BY <1>1, <2>5, CommitsClaims DEF Pays, PaysEntry
  <2> QED  BY <1>2, <2>1, <2>2, <2>3, <2>4, <2>5, StepShape DEF ClaimInv, LockInv
<1>3. ASSUME NEW p \in Processes, Fail(p) \/ (\E r \in Requests : Receive(p, r))
      PROVE  ClaimInv'
  <2>1. /\ txs' = txs /\ pc'[p] \in {"idle", "lookup"}
        /\ \A q \in Processes : q # p => pc'[q] = pc[q] /\ req'[q] = req[q]
    BY <1>1, <1>3 DEF Fail, Receive, Goto, db, TypeOK, ProcessTypeOK
  <2>2. pc'[p] \notin Inserted
    BY <2>1 DEF Inserted
  <2>3. ClaimsFree' /\ ClaimsExclusive' /\ ClaimedOnce'
    BY <2>1, <2>2 DEF ClaimInv, ClaimsFree, ClaimsExclusive, ClaimedOnce
  <2> QED  BY <1>1, <2>3 DEF ClaimInv
<1>4. CASE UNCHANGED vars
  BY <1>1, <1>4 DEF vars, ClaimInv, ClaimsFree, ClaimsExclusive, ClaimedOnce, Inserted
<1> QED  BY <1>2, <1>3, <1>4 DEF Next

\* Nothing is claimed at first.
LEMMA InitClaimInv == Init => ClaimInv
<1>1. Init => ClaimsFree /\ ClaimsExclusive /\ ClaimedOnce
  BY DEF Init, ClaimsFree, ClaimsExclusive, ClaimedOnce, Inserted
<1> QED  BY <1>1, InitLockInv DEF ClaimInv

\* At most one committed transaction per idempotency key and per external id,
\* for every number of callers, retries and races.
THEOREM AlwaysClaimedOnce == Spec => []ClaimedOnce
<1>1. ClaimInv => ClaimedOnce
  BY DEF ClaimInv
<1> QED  BY <1>1, InitClaimInv, NextClaimInv, PTL DEF Spec

(***************************************************************************)
(* Answers.                                                                 *)
(***************************************************************************)
\* Execute appends rows and changes none: a postponed row stays postponed.
LEMMA StepKeepsRows ==
  ASSUME LockInv, NEW p \in Processes, Step(p)
  PROVE  /\ \A i \in DOMAIN txs : i \in DOMAIN txs' /\ txs'[i] = txs[i]
         /\ Own(p)
<1>1. ASSUME NEW row \in Row, Commits(p, row)
      PROVE  /\ \A i \in DOMAIN txs : i \in DOMAIN txs' /\ txs'[i] = txs[i]
             /\ Own(p)
  BY <1>1 DEF Commits, LockInv, TypeOK, DbTypeOK
<1>2. CASE Quiet(p) \/ Locks(p) \/ Claims(p)
  BY <1>2 DEF Quiet, Locks, Claims, db
<1>3. CASE Records(p) \/ Pays(p)
  BY <1>1, <1>3 DEF Records, Pays, PaysEntry
<1> QED  BY <1>2, <1>3, StepShape DEF LockInv

\* What every answer says of the rows, as long as it stands.
AnswersTell == \A p \in Processes : pc[p] = "answered" => Tells(req[p], out[p])
AnswerInv == LockInv /\ AnswersTell

\* What an answer said remains true while rows are only added.
LEMMA AnswerStays ==
  ASSUME NEW q \in Processes, Tells(req[q], out[q]), req'[q] = req[q], out'[q] = out[q],
         \A i \in DOMAIN txs : i \in DOMAIN txs' /\ txs'[i] = txs[i]
  PROVE  Tells(req[q], out[q])'
<1>1. Repeats(req[q], out[q]) => Repeats(req[q], out[q])'
  BY DEF Repeats
<1>2. LastingReason(req[q], out[q].error) => LastingReason(req[q], out[q].error)'
  BY DEF LastingReason
<1> QED  BY <1>1, <1>2 DEF Tells

\* The answer of a step tells.
LEMMA StepTells ==
  ASSUME LockInv, NEW p \in Processes, Step(p), pc'[p] = "answered"
  PROVE  Tells(req[p], out[p])'
<1>1. CASE Quiet(p)
  <2>1. Tells(req[p], out'[p]) /\ req' = req /\ txs' = txs
    BY <1>1 DEF Quiet, Own, db
  <2> QED  BY <2>1 DEF Tells, Repeats, LastingReason
<1>2. ASSUME NEW row \in Row, Commits(p, row) PROVE Tells(req[p], out[p])'
  <2>1. /\ txs' = Append(txs, row) /\ row.req = req[p] /\ req' = req
        /\ AnswersNewRow(out'[p], row) /\ txs \in Seq(Row)
    BY <1>2 DEF Commits, Own, LockInv, TypeOK, DbTypeOK
  <2>2. NextId \in DOMAIN txs' /\ txs'[NextId] = row
    BY <2>1 DEF NextId
  <2>3. Repeats(req[p], out[p])' /\ out'[p].error = "none"
    BY <2>1, <2>2 DEF Repeats, AnswersNewRow
  <2>4. LastingReason(req[p], out[p].error)'
    BY <2>3 DEF LastingReason
  <2> QED  BY <2>3, <2>4 DEF Tells
<1>3. CASE Locks(p) \/ Claims(p)
  BY <1>3 DEF Locks, Claims
<1>4. CASE Records(p) \/ Pays(p)
  BY <1>2, <1>4 DEF Records, Pays, PaysEntry
<1> QED  BY <1>1, <1>3, <1>4, StepShape DEF LockInv

\* The invariant is inductive.
LEMMA NextAnswerInv == AnswerInv /\ [Next]_vars => AnswerInv'
<1> SUFFICES ASSUME AnswerInv, [Next]_vars PROVE AnswerInv'
  OBVIOUS
<1>1. LockInv'
  BY NextLockInv DEF AnswerInv
<1>2. ASSUME NEW p \in Processes, Step(p) PROVE AnswersTell'
  <2>1. /\ \A i \in DOMAIN txs : i \in DOMAIN txs' /\ txs'[i] = txs[i]
        /\ req' = req
        /\ \A q \in Processes : q # p => pc'[q] = pc[q] /\ out'[q] = out[q]
    BY <1>2, StepKeepsRows DEF Own, AnswerInv, LockInv, TypeOK, ProcessTypeOK
  <2> SUFFICES ASSUME NEW q \in Processes, pc'[q] = "answered" PROVE Tells(req[q], out[q])'
    BY DEF AnswersTell
  <2>2. CASE q = p
    BY <1>2, <2>2, StepTells DEF AnswerInv
  <2>3. CASE q # p
    BY <2>1, <2>3, AnswerStays DEF AnswerInv, AnswersTell
  <2> QED  BY <2>2, <2>3
<1>3. ASSUME NEW p \in Processes, Fail(p) \/ (\E r \in Requests : Receive(p, r))
      PROVE  AnswersTell'
  <2>1. /\ txs' = txs /\ pc'[p] # "answered"
        /\ \A q \in Processes : q # p => pc'[q] = pc[q] /\ out'[q] = out[q] /\ req'[q] = req[q]
    BY <1>3 DEF Fail, Receive, Goto, db, AnswerInv, LockInv, TypeOK, ProcessTypeOK
  <2> SUFFICES ASSUME NEW q \in Processes, pc'[q] = "answered" PROVE Tells(req[q], out[q])'
    BY DEF AnswersTell
  <2> QED  BY <2>1, AnswerStays DEF AnswerInv, AnswersTell
<1>4. CASE UNCHANGED vars
  <2> SUFFICES ASSUME NEW q \in Processes, pc'[q] = "answered" PROVE Tells(req[q], out[q])'
    BY <1>1 DEF AnswerInv, AnswersTell
  <2> QED  BY <1>4, AnswerStays DEF vars, AnswerInv, AnswersTell
<1> QED  BY <1>1, <1>2, <1>3, <1>4 DEF AnswerInv, Next

LEMMA AlwaysAnswerInv == Spec => []AnswerInv
<1>1. Init => AnswerInv
  BY InitLockInv DEF Init, AnswerInv, AnswersTell
<1> QED  BY <1>1, NextAnswerInv, PTL DEF Spec

\* For every set of callers and requests: whoever is answered without an error is
\* told the committed outcome of its own payload, at once or as a replay, and what
\* it was told stays true.
THEOREM AlwaysAnswersAreCommitted == Spec => []AnswersAreCommitted
<1>1. AnswerInv => AnswersAreCommitted
  BY DEF AnswerInv, AnswersTell, Tells, Repeats, AnswersAreCommitted
<1> QED  BY <1>1, AlwaysAnswerInv, PTL

(***************************************************************************)
(* Rows and entries: each wager that moves a wallet has exactly one entry.  *)
(***************************************************************************)
\* An entry of wallet w is the OPENING's, or that of a committed row that moved w
\* to the balance the row holds.
Explained(e, w) ==
  e.tx # NoTx =>
    /\ e.tx \in DOMAIN txs /\ Moving(txs[e.tx])
    /\ txs[e.tx].req.wallet = w /\ txs[e.tx].result = e.after

EntriesExplained == \A w \in Wallets : \A i \in DOMAIN ledger[w] : Explained(ledger[w][i], w)

EntriesDistinct ==
  \A w \in Wallets : \A i, j \in DOMAIN ledger[w] :
    ledger[w][i].tx # NoTx /\ ledger[w][i].tx = ledger[w][j].tx => i = j

RowsHaveEntries ==
  \A t \in DOMAIN txs :
    Moving(txs[t]) =>
      /\ txs[t].req.wallet \in Wallets
      /\ \E i \in DOMAIN ledger[txs[t].req.wallet] : ledger[txs[t].req.wallet][i].tx = t

\* At most one entry for each row, and the OPENING's.
LedgersBounded == \A w \in Wallets : Len(ledger[w]) <= Len(txs) + 1

EntryInv == EntriesExplained /\ EntriesDistinct /\ RowsHaveEntries /\ LedgersBounded

LEMMA InitEntryInv == Init => EntryInv
<1> SUFFICES ASSUME Init PROVE EntryInv
  OBVIOUS
<1>1. txs = <<>>
  BY DEF Init
<1>2. ASSUME NEW w \in Wallets
      PROVE  /\ Len(ledger[w]) <= 1
             /\ \A i \in DOMAIN ledger[w] : i = 1 /\ ledger[w][i].tx = NoTx
  <2>1. CASE InitialBalance[w] = 0
    BY <2>1 DEF Init, Opened
  <2>2. CASE InitialBalance[w] # 0
    <3> DEFINE e == LedgerEntry(NoTx, "CREDIT", InitialBalance[w], 0)
    <3>1. ledger[w] = <<e>>
      BY <2>2 DEF Init, Opened
    <3>2. e.tx = NoTx
      BY DEF LedgerEntry
    <3> HIDE DEF e
    <3> QED  BY <3>1, <3>2
  <2> QED  BY <2>1, <2>2
<1> QED
  BY <1>1, <1>2 DEF EntryInv, EntriesExplained, EntriesDistinct, RowsHaveEntries,
     LedgersBounded, Explained

\* A row that moves nothing needs no entry.
LEMMA RecordsEntryInv ==
  ASSUME LockInv, EntryInv, NEW p \in Processes, Records(p)
  PROVE  EntryInv'
<1>1. PICK row \in Row : Commits(p, row) /\ ~Moving(row) /\ UNCHANGED <<wallets, ledger>>
  BY DEF Records
<1>2. txs \in Seq(Row) /\ ledger \in [Wallets -> Seq(Entry)]
  BY DEF LockInv, TypeOK, DbTypeOK
<1>3. /\ Len(txs') = Len(txs) + 1 /\ Len(txs) \in Nat /\ DOMAIN txs' = 1..(Len(txs) + 1)
      /\ DOMAIN txs = 1..Len(txs)
      /\ \A t \in DOMAIN txs : t \in DOMAIN txs' /\ txs'[t] = txs[t]
      /\ txs'[Len(txs) + 1] = row /\ ledger' = ledger
  BY <1>1, <1>2, AppendProperties DEF Commits
<1>4. EntriesExplained'
  BY <1>3 DEF EntryInv, EntriesExplained, Explained, Moving
<1>5. EntriesDistinct'
  BY <1>3 DEF EntryInv, EntriesDistinct
<1>6. RowsHaveEntries'
  <2> SUFFICES ASSUME NEW t \in DOMAIN txs', Moving(txs'[t])
               PROVE  /\ txs'[t].req.wallet \in Wallets
                      /\ \E i \in DOMAIN ledger'[txs'[t].req.wallet] :
                           ledger'[txs'[t].req.wallet][i].tx = t
    BY DEF RowsHaveEntries, Moving
  <2>1. t \in DOMAIN txs
    BY <1>1, <1>3
  <2> QED  BY <1>3, <2>1 DEF EntryInv, RowsHaveEntries
<1>7. LedgersBounded'
  <2> SUFFICES ASSUME NEW w \in Wallets PROVE Len(ledger[w]) <= Len(txs') + 1
    BY <1>3 DEF LedgersBounded
  <2>1. Len(ledger[w]) \in Nat /\ Len(ledger[w]) <= Len(txs) + 1
    BY <1>2 DEF EntryInv, LedgersBounded
  <2> QED  BY <1>3, <2>1
<1> QED  BY <1>4, <1>5, <1>6, <1>7 DEF EntryInv

\* A row that moves its wallet commits with its entry.
LEMMA PaysEntryInv ==
  ASSUME LockInv, EntryInv, NEW p \in Processes, Pays(p)
  PROVE  EntryInv'
<1>1. PICK row \in Row, entry \in Entry : PaysEntry(p, row, entry)
  BY DEF Pays
<1> DEFINE v == req[p].wallet
           k == Len(txs) + 1
           n == Len(ledger[v]) + 1
<1>2. v \in Wallets
  BY <1>1, Settling DEF PaysEntry, Commits, LockInv
<1>3. txs \in Seq(Row) /\ ledger \in [Wallets -> Seq(Entry)] /\ wallets \in [Wallets -> WalletRow]
  BY DEF LockInv, TypeOK, DbTypeOK
<1>4. /\ Len(txs') = k /\ Len(txs) \in Nat /\ DOMAIN txs' = 1..k
      /\ DOMAIN txs = 1..Len(txs) /\ k \notin DOMAIN txs /\ k # NoTx
      /\ \A t \in DOMAIN txs : t \in DOMAIN txs' /\ txs'[t] = txs[t]
      /\ txs'[k] = row
  BY <1>1, <1>3, AppendProperties DEF PaysEntry, Commits, NoTx
<1>5. /\ entry.tx = k /\ Moving(row) /\ row.req.wallet = v /\ row.result = entry.after
  <2>1. wallets'[v].balance = entry.after
    BY <1>1, <1>2, <1>3 DEF PaysEntry
  <2> QED  BY <1>1, <2>1 DEF PaysEntry, Commits, Moving, NextId
<1>6. \A w \in Wallets \ {v} : ledger'[w] = ledger[w]
  BY <1>1, <1>3 DEF PaysEntry
<1>7. ledger'[v] = Append(ledger[v], entry)
  BY <1>1, <1>2, <1>3 DEF PaysEntry
<1>8. /\ Len(ledger'[v]) = n /\ Len(ledger[v]) \in Nat
      /\ DOMAIN ledger'[v] = 1..n /\ DOMAIN ledger[v] = 1..Len(ledger[v])
      /\ \A i \in DOMAIN ledger[v] : i \in DOMAIN ledger'[v] /\ ledger'[v][i] = ledger[v][i]
      /\ ledger'[v][n] = entry
  BY <1>2, <1>3, <1>7, AppendProperties
<1> HIDE DEF v, k, n
<1>9. \A w \in Wallets : \A i \in DOMAIN ledger[w] : ledger[w][i].tx # k
  <2> SUFFICES ASSUME NEW w \in Wallets, NEW i \in DOMAIN ledger[w], ledger[w][i].tx = k
               PROVE  FALSE
    OBVIOUS
  <2> QED  BY <1>4 DEF EntryInv, EntriesExplained, Explained
<1>10. \A w \in Wallets : \A i \in DOMAIN ledger'[w] :
         \/ i \in DOMAIN ledger[w] /\ ledger'[w][i] = ledger[w][i]
         \/ w = v /\ i = n /\ ledger'[w][i] = entry
  <2> SUFFICES ASSUME NEW w \in Wallets, NEW i \in DOMAIN ledger'[w]
               PROVE  \/ i \in DOMAIN ledger[w] /\ ledger'[w][i] = ledger[w][i]
                      \/ w = v /\ i = n /\ ledger'[w][i] = entry
    OBVIOUS
  <2>1. CASE w # v
    BY <1>6, <2>1
  <2>2. CASE w = v
    <3>1. i \in DOMAIN ledger[v] \/ i = n
      BY <1>8, <2>2 DEF n
    <3> QED  BY <1>8, <2>2, <3>1
  <2> QED  BY <2>1, <2>2
<1>11. EntriesExplained'
  <2> SUFFICES ASSUME NEW w \in Wallets, NEW i \in DOMAIN ledger'[w]
               PROVE  Explained(ledger[w][i], w)'
    BY DEF EntriesExplained, Explained, Moving
  <2>1. CASE i \in DOMAIN ledger[w] /\ ledger'[w][i] = ledger[w][i]
    BY <1>4, <2>1 DEF EntryInv, EntriesExplained, Explained, Moving
  <2>2. CASE w = v /\ ledger'[w][i] = entry
    <3>1. k \in DOMAIN txs'
      BY <1>4 DEF k
    <3> QED  BY <1>4, <1>5, <2>2, <3>1 DEF Explained, Moving
  <2> QED  BY <1>10, <2>1, <2>2
<1>12. EntriesDistinct'
  <2> SUFFICES ASSUME NEW w \in Wallets, NEW i \in DOMAIN ledger'[w], NEW j \in DOMAIN ledger'[w],
                      ledger'[w][i].tx # NoTx, ledger'[w][i].tx = ledger'[w][j].tx
               PROVE  i = j
    BY DEF EntriesDistinct
  <2>1. ASSUME NEW m \in DOMAIN ledger'[w]
        PROVE  \/ m \in DOMAIN ledger[w] /\ ledger'[w][m] = ledger[w][m] /\ ledger'[w][m].tx # k
               \/ m = n /\ ledger'[w][m].tx = k
    <3>1. CASE m \in DOMAIN ledger[w] /\ ledger'[w][m] = ledger[w][m]
      BY <1>9, <3>1
    <3>2. CASE m = n /\ ledger'[w][m] = entry
      BY <1>5, <3>2
    <3> QED  BY <1>10, <2>1, <3>1, <3>2
  <2>2. CASE ledger'[w][i].tx = k
    BY <2>1, <2>2
  <2>3. CASE ledger'[w][i].tx # k
    <3>1. /\ i \in DOMAIN ledger[w] /\ j \in DOMAIN ledger[w]
          /\ ledger[w][i].tx # NoTx /\ ledger[w][i].tx = ledger[w][j].tx
      BY <2>1, <2>3
    <3> QED  BY <3>1 DEF EntryInv, EntriesDistinct
  <2> QED  BY <2>2, <2>3
<1>13. RowsHaveEntries'
  <2> SUFFICES ASSUME NEW t \in DOMAIN txs', Moving(txs'[t])
               PROVE  /\ txs'[t].req.wallet \in Wallets
                      /\ \E i \in DOMAIN ledger'[txs'[t].req.wallet] :
                           ledger'[txs'[t].req.wallet][i].tx = t
    BY DEF RowsHaveEntries, Moving
  <2>1. CASE t \in DOMAIN txs
    <3> DEFINE w == txs[t].req.wallet
    <3>1. txs'[t] = txs[t] /\ w \in Wallets
      BY <1>4, <2>1 DEF EntryInv, RowsHaveEntries
    <3>2. PICK i \in DOMAIN ledger[w] : ledger[w][i].tx = t
      BY <1>4, <2>1 DEF EntryInv, RowsHaveEntries
    <3>3. i \in DOMAIN ledger'[w] /\ ledger'[w][i] = ledger[w][i]
      BY <1>6, <1>8, <3>1
    <3> QED  BY <3>1, <3>2, <3>3
  <2>2. CASE t = k
    <3>1. n \in DOMAIN ledger'[v]
      BY <1>8 DEF n
    <3> QED  BY <1>2, <1>4, <1>5, <1>8, <2>2, <3>1
  <2> QED  BY <1>4, <2>1, <2>2 DEF k
<1>14. LedgersBounded'
  <2> SUFFICES ASSUME NEW w \in Wallets PROVE Len(ledger'[w]) <= Len(txs') + 1
    BY DEF LedgersBounded
  <2>1. Len(ledger[w]) \in Nat /\ Len(ledger[w]) <= Len(txs) + 1
    BY <1>3 DEF EntryInv, LedgersBounded
  <2>2. Len(ledger'[w]) <= Len(ledger[w]) + 1 /\ Len(ledger'[w]) \in Nat
    BY <1>6, <1>8, <2>1 DEF n
  <2> QED  BY <1>4, <2>1, <2>2 DEF k
<1> QED  BY <1>11, <1>12, <1>13, <1>14 DEF EntryInv

LEMMA NextEntryInv == LockInv /\ EntryInv /\ [Next]_vars => EntryInv'
<1> SUFFICES ASSUME LockInv, EntryInv, [Next]_vars PROVE EntryInv'
  OBVIOUS
<1>1. CASE UNCHANGED <<txs, ledger>>
  BY <1>1 DEF EntryInv, EntriesExplained, EntriesDistinct, RowsHaveEntries, LedgersBounded,
              Explained, Moving
<1>2. ASSUME NEW p \in Processes, Step(p) PROVE EntryInv'
  <2>1. UNCHANGED <<txs, ledger>> \/ Records(p) \/ Pays(p)
    BY <1>2, StepShape DEF LockInv, Quiet, Locks, Claims, db
  <2> QED  BY <1>1, <2>1, RecordsEntryInv, PaysEntryInv
<1>3. ASSUME NEW p \in Processes, Fail(p) \/ (\E r \in Requests : Receive(p, r))
      PROVE  EntryInv'
  BY <1>1, <1>3 DEF Fail, Receive, db
<1>4. CASE UNCHANGED vars
  BY <1>1, <1>4 DEF vars
<1> QED  BY <1>2, <1>3, <1>4 DEF Next

LEMMA AlwaysEntryInv == Spec => []EntryInv
<1>1. Init => LockInv /\ EntryInv
  BY InitLockInv, InitEntryInv
<1> QED  BY <1>1, NextLockInv, NextEntryInv, PTL DEF Spec

\* The entries a row owns are one, or none.
LEMMA OwnEntries ==
  ASSUME LockInv, EntryInv
  PROVE  EntryIffProcessed
<1> SUFFICES ASSUME NEW t \in DOMAIN txs
             PROVE  LET own == {e \in Wallets \X (1..Len(txs)+1) :
                                  e[2] \in DOMAIN ledger[e[1]] /\ ledger[e[1]][e[2]].tx = t}
                        moves == txs[t].status = "PROCESSED" /\ txs[t].req.kind # "LOSS"
                    IN  /\ Cardinality(own) = IF moves THEN 1 ELSE 0
                        /\ \A e \in own : /\ e[1] = txs[t].req.wallet
                                          /\ txs[t].result = ledger[e[1]][e[2]].after
  BY DEF EntryIffProcessed
<1> DEFINE own == {e \in Wallets \X (1..Len(txs)+1) :
                     e[2] \in DOMAIN ledger[e[1]] /\ ledger[e[1]][e[2]].tx = t}
           v == txs[t].req.wallet
<1>1. t # NoTx /\ txs \in Seq(Row) /\ ledger \in [Wallets -> Seq(Entry)]
  BY DEF LockInv, TypeOK, DbTypeOK, NoTx
<1>2. ASSUME NEW e \in own
      PROVE  /\ e[1] = v /\ txs[t].result = ledger[e[1]][e[2]].after /\ Moving(txs[t])
             /\ e = <<v, e[2]>> /\ e[2] \in DOMAIN ledger[v] /\ ledger[v][e[2]].tx = t
             /\ v \in Wallets
  <2>1. /\ e[1] \in Wallets /\ e[2] \in DOMAIN ledger[e[1]] /\ ledger[e[1]][e[2]].tx = t
        /\ e = <<e[1], e[2]>>
    OBVIOUS
  <2> HIDE DEF own, v
  <2>2. /\ Moving(txs[t]) /\ v = e[1] /\ txs[t].result = ledger[e[1]][e[2]].after
    BY <1>1, <2>1 DEF EntryInv, EntriesExplained, Explained, v
  <2> QED  BY <2>1, <2>2
<1>3. CASE ~Moving(txs[t])
  <2>1. own = {}
    BY <1>2, <1>3
  <2> QED  BY <1>3, <2>1, FS_EmptySet DEF Moving
<1>4. CASE Moving(txs[t])
  <2>1. v \in Wallets
    BY <1>4 DEF EntryInv, RowsHaveEntries
  <2>2. PICK i \in DOMAIN ledger[v] : ledger[v][i].tx = t
    BY <1>4 DEF EntryInv, RowsHaveEntries
  <2>3. i \in 1..Len(txs)+1
    <3>1. i \in 1..Len(ledger[v]) /\ Len(ledger[v]) \in Nat /\ Len(txs) \in Nat
      BY <1>1, <2>1
    <3>2. Len(ledger[v]) <= Len(txs) + 1
      BY <2>1 DEF EntryInv, LedgersBounded
    <3> QED  BY <3>1, <3>2
  <2>4. <<v, i>> \in own
    BY <2>1, <2>2, <2>3
  <2>5. ASSUME NEW e \in own PROVE e = <<v, i>>
    <3>1. /\ e = <<v, e[2]>> /\ e[2] \in DOMAIN ledger[v] /\ ledger[v][e[2]].tx = t
      BY <1>2
    <3>2. e[2] = i
      BY <1>1, <2>1, <2>2, <3>1 DEF EntryInv, EntriesDistinct
    <3> QED  BY <3>1, <3>2
  <2>6. own = {<<v, i>>}
    BY <2>4, <2>5
  <2>7. Cardinality(own) = 1
    BY <2>6, FS_Singleton
  <2> QED  BY <1>2, <1>4, <2>7 DEF Moving
<1> QED  BY <1>3, <1>4

\* For every set of callers and requests: a committed wager has exactly one ledger
\* entry, in the wallet it named and with the balance it answered, if it moved
\* money, and none if it did not.
THEOREM AlwaysEntryIffProcessed == Spec => []EntryIffProcessed
<1>1. LockInv /\ EntryInv => EntryIffProcessed
  BY OwnEntries
<1> QED  BY <1>1, AlwaysLockInv, AlwaysEntryInv, PTL

(***************************************************************************)
(* Books: a wager is one movement of its wallet, as module WalletBooks says. *)
(***************************************************************************)
\* An entry between two balances the table accepts is one the domain allows.
LEMMA EntryIsAllowed ==
  ASSUME NEW e \in Entry, e.after = Moved(e.before, e.direction, e.amount)
  PROVE  /\ e = Books!LedgerEntry(e.tx, e.direction, e.amount, e.before)
         /\ \/ e.direction = "CREDIT" /\ Books!CanCredit(e.before, e.amount)
            \/ e.direction = "DEBIT" /\ Books!CanDebit(e.before, e.amount)
<1>1. /\ e.direction \in {"CREDIT", "DEBIT"} /\ e.amount \in 1..MaxInt
      /\ e.before \in 0..MaxInt /\ e.after \in 0..MaxInt
  BY DEF Entry, Directions
<1>2. e = [tx |-> e.tx, direction |-> e.direction, amount |-> e.amount,
           before |-> e.before, after |-> Moved(e.before, e.direction, e.amount)]
  BY DEF Entry
<1>3. e = Books!LedgerEntry(e.tx, e.direction, e.amount, e.before)
  BY <1>2 DEF Books!LedgerEntry, Books!Moved, Moved
<1>4. CASE e.direction = "CREDIT"
  <2>1. e.before + e.amount \in 0..MaxInt
    BY <1>1, <1>4 DEF Moved
  <2>2. Books!CanCredit(e.before, e.amount)
    BY <1>1, <2>1, MaxIntAssumption DEF Books!CanCredit, Books!AddFits, Books!MinInt
  <2> QED  BY <1>3, <1>4, <2>2
<1>5. CASE e.direction = "DEBIT"
  <2>1. e.before - e.amount \in 0..MaxInt
    BY <1>1, <1>5 DEF Moved
  <2>2. Books!CanDebit(e.before, e.amount)
    BY <1>1, <2>1 DEF Books!CanDebit
  <2> QED  BY <1>3, <1>5, <2>2
<1> QED  BY <1>1, <1>4, <1>5

LEMMA PaysMoves ==
  ASSUME LockInv, EntryInv, NEW p \in Processes, Pays(p)
  PROVE  Books!Next
<1> USE DEF LockInv
<1>1. PICK row \in Row, entry \in Entry : PaysEntry(p, row, entry)
  BY DEF Pays
<1>2. PICK w : w = req[p].wallet
  OBVIOUS
<1>3. pc[p] \in Inserted
  BY <1>1 DEF PaysEntry, Commits
<1>4. w \in Wallets /\ snap[p] = wallets[w] /\ wallets[w] \in WalletRow
  BY <1>2, <1>3, Settling DEF SnapshotCurrent, TypeOK, DbTypeOK
<1>5. /\ entry.before = wallets[w].balance /\ entry.tx = NextId
      /\ entry.after = Moved(entry.before, entry.direction, entry.amount)
      /\ wallets' = [wallets EXCEPT ![w] = [balance |-> entry.after,
                                            version |-> wallets[w].version + 1]]
      /\ ledger' = [ledger EXCEPT ![w] = Append(@, entry)]
  BY <1>1, <1>2, <1>4 DEF PaysEntry
<1>6. /\ wallets \in [Wallets -> WalletRow] /\ ledger \in [Wallets -> Seq(Entry)]
      /\ txs \in Seq(Row)
  BY DEF TypeOK, DbTypeOK
<1>7. wallets' = [wallets EXCEPT ![w].balance = entry.after, ![w].version = @ + 1]
  BY <1>4, <1>5, <1>6 DEF WalletRow
<1>8. entry.tx # Books!OpeningTx /\ \A i \in DOMAIN ledger[w] : ledger[w][i].tx # entry.tx
  <2>1. Len(txs) \in Nat /\ DOMAIN txs = 1..Len(txs) /\ entry.tx = Len(txs) + 1
    BY <1>5, <1>6 DEF NextId
  <2>2. ASSUME NEW i \in DOMAIN ledger[w] PROVE ledger[w][i].tx # entry.tx
    BY <1>4, <2>1 DEF EntryInv, EntriesExplained, Explained, NoTx
  <2> QED  BY <2>1, <2>2 DEF Books!OpeningTx
<1>9. Books!Move(w, entry.tx, entry.direction, entry.amount)
  BY <1>5, <1>7, <1>8, EntryIsAllowed DEF Books!Move
<1>10. \E i \in DOMAIN ledger'[w] : ledger'[w][i] = entry
  <2>1. ledger[w] \in Seq(Entry) /\ ledger'[w] = Append(ledger[w], entry)
    BY <1>4, <1>5, <1>6
  <2> QED  BY <2>1, AppendProperties
<1> QED  BY <1>4, <1>6, <1>9, <1>10 DEF Books!Next

LEMMA InitBooks == Init => Books!Init
<1> SUFFICES ASSUME Init PROVE Books!Init
  OBVIOUS
<1>1. DOMAIN ledger = DOMAIN wallets /\ DOMAIN wallets = Wallets
  BY DEF Init
<1>2. ASSUME NEW w \in Wallets PROVE Books!New(wallets[w], ledger[w])
  <2>1. /\ wallets[w] = [balance |-> InitialBalance[w], version |-> 1]
        /\ ledger[w] = Opened(InitialBalance[w])
    BY DEF Init
  <2>2. wallets[w].balance \in 0..MaxInt /\ wallets[w].version = 1
        /\ ledger[w] = Opened(wallets[w].balance)
    <3>1. wallets[w].balance = InitialBalance[w] /\ wallets[w].version = 1
      BY <2>1
    <3>2. InitialBalance[w] \in 0..MaxInt
      BY WalletsAssumption
    <3> QED  BY <2>1, <3>1, <3>2
  <2>3. ASSUME NEW b PROVE Opened(b) = Books!OpeningEntries(b)
    <3>1. LedgerEntry(NoTx, "CREDIT", b, 0) = Books!LedgerEntry(Books!OpeningTx, "CREDIT", b, 0)
      BY DEF LedgerEntry, Moved, NoTx, Books!OpeningTx, Books!LedgerEntry, Books!Moved
    <3> QED  BY <3>1 DEF Opened, Books!OpeningEntries
  <2> QED  BY <2>2, <2>3 DEF Books!New
<1> QED  BY <1>1, <1>2 DEF Books!Init

\* For every set of callers and requests, wager processing keeps the books: no
\* wallet is moved but by one movement the domain allows from the balance in the
\* table, together with its entry, and no entry is ever changed.
THEOREM WagersKeepBooks == Spec => KeepsBooks
<1>1. LockInv /\ EntryInv /\ [Next]_vars => [Books!Next]_(Books!books)
  <2> SUFFICES ASSUME LockInv, EntryInv, [Next]_vars
               PROVE  Books!Next \/ UNCHANGED <<wallets, ledger>>
    BY DEF Books!books
  <2>1. ASSUME NEW p \in Processes, Step(p)
        PROVE  Books!Next \/ UNCHANGED <<wallets, ledger>>
    <3>1. UNCHANGED <<wallets, ledger>> \/ Pays(p)
      BY <2>1, StepShape DEF LockInv, Quiet, Locks, Claims, Records, db
    <3> QED  BY <3>1, PaysMoves
  <2>2. ASSUME NEW p \in Processes, Fail(p) \/ (\E r \in Requests : Receive(p, r))
        PROVE  UNCHANGED <<wallets, ledger>>
    BY <2>2 DEF Fail, Receive, db
  <2>3. CASE UNCHANGED vars
    BY <2>3 DEF vars
  <2> QED  BY <2>1, <2>2, <2>3 DEF Next
<1> QED
  BY <1>1, InitBooks, AlwaysLockInv, AlwaysEntryInv, PTL DEF Spec, KeepsBooks, Books!Spec

(***************************************************************************)
(* Reversals: a paid one undoes exactly the paid wager it names, once.      *)
(***************************************************************************)
\* p has decided that its reversal may be paid and has not paid it yet.
WillPay(p) == pc[p] = "settle" /\ verdict[p] = "move"

AmountAgrees(r, i) == r.kind = "REFUND" => r.amount = txs[i].req.amount

\* What p has looked up for its reversal still holds: rows are never changed.
LookupsStand ==
  \A p \in Processes :
    /\ pc[p] = "reversal" \/ WillPay(p) => RefersTo(req[p], ref[p])
    /\ WillPay(p) => AmountAgrees(req[p], ref[p])

RowsRefer ==
  \A t \in DOMAIN txs :
    IsPaidReversal(t) =>
      /\ txs[t].refTx < t
      /\ RefersTo(txs[t].req, txs[t].refTx) /\ AmountAgrees(txs[t].req, txs[t].refTx)

\* Entry e is what its row does to the wallet.
Fits(e) == e.tx # NoTx => Effect(txs[e.tx].req, txs[e.tx].refTx, e.direction, e.amount)
EntriesFit == \A w \in Wallets : \A i \in DOMAIN ledger[w] : Fits(ledger[w][i])

ReversalInv == LockInv /\ EntryInv /\ LookupsStand /\ RowsRefer /\ EntriesFit

(***************************************************************************)
(* Lookups.                                                                 *)
(***************************************************************************)
\* The lookups of p itself: only a quiet step brings it to a reversal's phases.
LEMMA OwnLookups ==
  ASSUME ReversalInv, NEW p \in Processes, Step(p)
  PROVE  /\ pc'[p] = "reversal" \/ WillPay(p)' => RefersTo(req[p], ref[p])'
         /\ WillPay(p)' => AmountAgrees(req[p], ref[p])'
<1>1. CASE Quiet(p)
  <2>1. txs' = txs /\ req' = req
    BY <1>1 DEF Quiet, Own, db
  <2>2. CASE pc'[p] = "reversal"
    BY <1>1, <2>1, <2>2 DEF Quiet, WillPay, RefersTo
  <2>3. CASE pc'[p] = "settle" /\ verdict'[p] = "move"
    <3>1. /\ pc[p] = "reversal" /\ ref'[p] = ref[p]
          /\ req[p].kind = "REFUND" => req[p].amount = txs[ref[p]].req.amount
      BY <1>1, <2>3 DEF Quiet, Decides
    <3>2. RefersTo(req[p], ref[p])
      BY <3>1 DEF ReversalInv, LookupsStand
    <3> QED  BY <2>1, <2>3, <3>1, <3>2 DEF RefersTo, AmountAgrees
  <2> QED  BY <2>2, <2>3 DEF WillPay
<1>2. CASE Locks(p) \/ Claims(p) \/ Records(p) \/ Pays(p)
  <2>1. pc'[p] \in {"claim", "apply", "answered"}
    BY <1>2 DEF Locks, Claims, Records, Pays, PaysEntry, Commits
  <2> QED  BY <2>1 DEF WillPay
<1> QED  BY <1>1, <1>2, StepShape DEF ReversalInv, LockInv

\* The lookups of a process that did not move.
LEMMA OtherLookups ==
  ASSUME ReversalInv, NEW q \in Processes,
         pc'[q] = pc[q], verdict'[q] = verdict[q], ref'[q] = ref[q], req'[q] = req[q],
         \A i \in DOMAIN txs : i \in DOMAIN txs' /\ txs'[i] = txs[i]
  PROVE  /\ pc'[q] = "reversal" \/ WillPay(q)' => RefersTo(req[q], ref[q])'
         /\ WillPay(q)' => AmountAgrees(req[q], ref[q])'
<1>1. pc'[q] = "reversal" \/ WillPay(q)' =>
        /\ RefersTo(req[q], ref[q]) /\ (WillPay(q)' => AmountAgrees(req[q], ref[q]))
  BY DEF ReversalInv, LookupsStand, WillPay
<1>2. RefersTo(req[q], ref[q]) => RefersTo(req[q], ref[q])' /\ txs'[ref[q]] = txs[ref[q]]
  BY DEF RefersTo
<1>3. RefersTo(req[q], ref[q]) /\ AmountAgrees(req[q], ref[q]) => AmountAgrees(req[q], ref[q])'
  BY <1>2 DEF AmountAgrees
<1> QED  BY <1>1, <1>2, <1>3 DEF WillPay

LEMMA NextLookups == ReversalInv /\ [Next]_vars => LookupsStand'
<1> SUFFICES ASSUME ReversalInv, [Next]_vars, NEW q \in Processes
             PROVE  /\ pc'[q] = "reversal" \/ WillPay(q)' => RefersTo(req[q], ref[q])'
                    /\ WillPay(q)' => AmountAgrees(req[q], ref[q])'
  BY DEF LookupsStand
<1>1. ASSUME NEW p \in Processes, Step(p), p # q
      PROVE  /\ pc'[q] = pc[q] /\ verdict'[q] = verdict[q] /\ ref'[q] = ref[q]
             /\ req'[q] = req[q]
             /\ \A i \in DOMAIN txs : i \in DOMAIN txs' /\ txs'[i] = txs[i]
  BY <1>1, StepKeepsRows DEF ReversalInv, LockInv, TypeOK, ProcessTypeOK, Own
<1>2. ASSUME NEW p \in Processes, Fail(p) \/ (\E r \in Requests : Receive(p, r))
      PROVE  /\ txs' = txs /\ pc'[p] \in {"idle", "lookup"}
             /\ p # q => /\ pc'[q] = pc[q] /\ verdict'[q] = verdict[q]
                         /\ ref'[q] = ref[q] /\ req'[q] = req[q]
  BY <1>2 DEF Fail, Receive, Goto, db, ReversalInv, LockInv, TypeOK, ProcessTypeOK
<1>3. CASE UNCHANGED vars
  BY <1>3, OtherLookups DEF vars
<1>4. CASE Step(q)
  BY <1>4, OwnLookups
<1>5. ASSUME NEW p \in Processes, Step(p), p # q
      PROVE  /\ pc'[q] = "reversal" \/ WillPay(q)' => RefersTo(req[q], ref[q])'
             /\ WillPay(q)' => AmountAgrees(req[q], ref[q])'
  BY <1>1, <1>5, OtherLookups
<1>6. ASSUME NEW p \in Processes, Fail(p) \/ (\E r \in Requests : Receive(p, r))
      PROVE  /\ pc'[q] = "reversal" \/ WillPay(q)' => RefersTo(req[q], ref[q])'
             /\ WillPay(q)' => AmountAgrees(req[q], ref[q])'
  <2>1. CASE p = q
    BY <1>2, <1>6, <2>1 DEF WillPay
  <2>2. CASE p # q
    BY <1>2, <1>6, <2>2, OtherLookups
  <2> QED  BY <2>1, <2>2
<1> QED  BY <1>3, <1>4, <1>5, <1>6 DEF Next

(***************************************************************************)
(* Rows and entries.                                                        *)
(***************************************************************************)
\* The new row of a step, if there is one: a paid reversal has been decided.
LEMMA NewRow ==
  ASSUME LockInv, NEW p \in Processes, Step(p), txs' # txs
  PROVE  \E row \in Row :
           /\ txs' = Append(txs, row) /\ row.req = req[p] /\ pc[p] \in Inserted
           /\ row.status = "PROCESSED" /\ row.req.kind \in Reversals =>
                WillPay(p) /\ row.refTx = ref[p]
<1>1. CASE Records(p)
  BY <1>1 DEF Records, Commits, Moving, Reversals
<1>2. CASE Pays(p)
  <2>1. PICK row \in Row, entry \in Entry : PaysEntry(p, row, entry)
    BY <1>2 DEF Pays
  <2>2. /\ txs' = Append(txs, row) /\ row.req = req[p] /\ pc[p] \in Inserted
        /\ req[p].kind \in Reversals => WillPay(p) /\ row.refTx = ref[p]
    BY <2>1 DEF PaysEntry, Commits, Settles, WillPay
  <2> QED  BY <2>2
<1> QED  BY <1>1, <1>2, StepShape DEF LockInv, Quiet, Locks, Claims, db

\* A paid reversal keeps pointing to the row it undoes.
LEMMA NextRowsRefer ==
  ASSUME ReversalInv, [Next]_vars
  PROVE  RowsRefer'
<1>1. CASE txs' = txs
  BY <1>1 DEF ReversalInv, RowsRefer, IsPaidReversal, RefersTo, AmountAgrees
<1>2. CASE txs' # txs
  <2>1. PICK p \in Processes : Step(p)
    BY <1>2 DEF Next, Receive, Fail, db, vars
  <2>2. PICK row \in Row :
          /\ txs' = Append(txs, row) /\ row.req = req[p]
          /\ row.status = "PROCESSED" /\ row.req.kind \in Reversals =>
               WillPay(p) /\ row.refTx = ref[p]
    BY <1>2, <2>1, NewRow DEF ReversalInv
  <2>3. txs \in Seq(Row)
    BY DEF ReversalInv, LockInv, TypeOK, DbTypeOK
  <2>4. /\ Len(txs) \in Nat /\ DOMAIN txs = 1..Len(txs) /\ DOMAIN txs' = 1..(Len(txs)+1)
        /\ txs'[Len(txs)+1] = row
        /\ \A t \in DOMAIN txs : t \in DOMAIN txs' /\ txs'[t] = txs[t]
    BY <2>2, <2>3, AppendProperties
  <2> SUFFICES ASSUME NEW t \in DOMAIN txs', IsPaidReversal(t)'
               PROVE  /\ txs'[t].refTx < t
                      /\ RefersTo(txs[t].req, txs[t].refTx)'
                      /\ AmountAgrees(txs[t].req, txs[t].refTx)'
    BY DEF RowsRefer
  <2>5. CASE t \in DOMAIN txs
    <3>1. txs'[t] = txs[t] /\ IsPaidReversal(t)
      BY <2>4, <2>5 DEF IsPaidReversal
    <3>2. /\ txs[t].refTx < t
          /\ RefersTo(txs[t].req, txs[t].refTx) /\ AmountAgrees(txs[t].req, txs[t].refTx)
      BY <2>5, <3>1 DEF ReversalInv, RowsRefer
    <3>3. txs[t].refTx \in DOMAIN txs
      BY <3>2 DEF RefersTo
    <3> QED  BY <2>4, <3>1, <3>2, <3>3 DEF RefersTo, AmountAgrees
  <2>6. CASE t = Len(txs) + 1
    <3>1. txs'[t] = row
      BY <2>4, <2>6
    <3>2. WillPay(p) /\ row.refTx = ref[p]
      BY <2>2, <3>1 DEF IsPaidReversal
    <3>3. RefersTo(req[p], ref[p]) /\ AmountAgrees(req[p], ref[p])
      BY <3>2 DEF ReversalInv, LookupsStand
    <3>4. ref[p] \in DOMAIN txs
      BY <3>3 DEF RefersTo
    <3>5. ref[p] < t
      BY <2>4, <2>6, <3>4
    <3> QED  BY <2>2, <2>4, <3>1, <3>2, <3>3, <3>4, <3>5 DEF RefersTo, AmountAgrees
  <2> QED  BY <2>4, <2>5, <2>6
<1> QED  BY <1>1, <1>2

\* An entry keeps being what its row did: the row, and the row it reverses, stay.
LEMMA FitsStays ==
  ASSUME ReversalInv, NEW w \in Wallets, NEW i \in DOMAIN ledger[w],
         ledger'[w][i] = ledger[w][i],
         \A t \in DOMAIN txs : t \in DOMAIN txs' /\ txs'[t] = txs[t]
  PROVE  Fits(ledger[w][i])'
<1> DEFINE e == ledger[w][i]
           t == e.tx
<1> SUFFICES ASSUME t # NoTx
             PROVE  Effect(txs[t].req, txs[t].refTx, e.direction, e.amount)'
  BY DEF Fits
<1>1. /\ t \in DOMAIN txs /\ Moving(txs[t])
      /\ Effect(txs[t].req, txs[t].refTx, e.direction, e.amount)
  BY DEF ReversalInv, EntryInv, EntriesExplained, Explained, EntriesFit, Fits
<1>2. txs[t].req.kind = "ROLLBACK" => txs[t].refTx \in DOMAIN txs
  BY <1>1 DEF ReversalInv, RowsRefer, RefersTo, IsPaidReversal, Moving, Reversals
<1>3. e' = e /\ txs'[t] = txs[t] /\ t' = t
  BY <1>1
<1>4. txs[t].req.kind = "ROLLBACK" => txs'[txs[t].refTx] = txs[txs[t].refTx]
  BY <1>2
<1> HIDE DEF e, t
<1> QED  BY <1>1, <1>3, <1>4 DEF Effect

LEMMA NextEntriesFit ==
  ASSUME ReversalInv, [Next]_vars
  PROVE  EntriesFit'
<1>1. ASSUME txs' = txs, ledger' = ledger PROVE EntriesFit'
  BY <1>1 DEF ReversalInv, EntriesFit, Fits, Effect
<1>2. ASSUME NEW p \in Processes, Step(p) PROVE EntriesFit'
  <2>1. \A t \in DOMAIN txs : t \in DOMAIN txs' /\ txs'[t] = txs[t]
    BY <1>2, StepKeepsRows DEF ReversalInv
  <2>2. CASE ledger' = ledger
    <3> SUFFICES ASSUME NEW w \in Wallets, NEW i \in DOMAIN ledger'[w]
                 PROVE  Fits(ledger[w][i])'
      BY DEF EntriesFit
    <3> QED  BY <2>1, <2>2, FitsStays
  <2>3. CASE Pays(p)
    <3>1. PICK row \in Row, entry \in Entry : PaysEntry(p, row, entry)
      BY <2>3 DEF Pays
    <3>2. /\ txs' = Append(txs, row) /\ row.req = req[p] /\ entry.tx = Len(txs) + 1
          /\ Settles(p, entry.direction, entry.amount)
          /\ req[p].kind \in Reversals => row.refTx = ref[p]
          /\ ledger' = [ledger EXCEPT ![req[p].wallet] = Append(@, entry)]
          /\ pc[p] \in Inserted
      BY <3>1 DEF PaysEntry, Commits, NextId
    <3>3. txs \in Seq(Row) /\ ledger \in [Wallets -> Seq(Entry)] /\ req[p].wallet \in Wallets
      BY <3>2, Settling DEF ReversalInv, LockInv, TypeOK, DbTypeOK
    <3>4. txs'[entry.tx] = row
      BY <3>2, <3>3, AppendProperties
    <3> SUFFICES ASSUME NEW w \in Wallets, NEW i \in DOMAIN ledger'[w]
                 PROVE  Fits(ledger[w][i])'
      BY DEF EntriesFit
    <3>5. \/ i \in DOMAIN ledger[w] /\ ledger'[w][i] = ledger[w][i]
          \/ ledger'[w][i] = entry
      <4>1. CASE w # req[p].wallet
        BY <3>2, <3>3, <4>1
      <4>2. CASE w = req[p].wallet
        <5>1. ledger'[w] = Append(ledger[w], entry) /\ ledger[w] \in Seq(Entry)
          BY <3>2, <3>3, <4>2
        <5> QED  BY <5>1, AppendProperties
      <4> QED  BY <4>1, <4>2
    <3>6. ASSUME ledger'[w][i] = entry PROVE Fits(ledger[w][i])'
      <4>1. req[p].kind = "ROLLBACK" =>
              /\ ref[p] \in DOMAIN txs /\ row.refTx = ref[p]
              /\ txs'[ref[p]] = txs[ref[p]]
        <5>1. req[p].kind = "ROLLBACK" => WillPay(p) /\ row.refTx = ref[p]
          BY <3>2 DEF Settles, WillPay, Reversals
        <5> QED  BY <2>1, <5>1 DEF ReversalInv, LookupsStand, RefersTo
      <4>2. Effect(req[p], ref[p], entry.direction, entry.amount)
        BY <3>2 DEF Settles
      <4> QED  BY <3>2, <3>4, <3>6, <4>1, <4>2 DEF Fits, Effect
    <3> QED  BY <2>1, <3>5, <3>6, FitsStays
  <2> QED  BY <1>2, <2>2, <2>3, StepShape
        DEF ReversalInv, LockInv, Quiet, Locks, Claims, Records, db
<1>3. ASSUME NEW p \in Processes, Fail(p) \/ (\E r \in Requests : Receive(p, r))
      PROVE  EntriesFit'
  BY <1>1, <1>3 DEF Fail, Receive, db
<1>4. CASE UNCHANGED vars
  BY <1>1, <1>4 DEF vars
<1> QED  BY <1>2, <1>3, <1>4 DEF Next

LEMMA InitReversalInv == Init => ReversalInv
<1> SUFFICES ASSUME Init PROVE ReversalInv
  OBVIOUS
<1>1. LockInv /\ EntryInv
  BY InitLockInv, InitEntryInv
<1>2. LookupsStand
  BY DEF Init, LookupsStand, WillPay
<1>3. txs = <<>>
  BY DEF Init
<1>4. RowsRefer
  BY <1>3 DEF RowsRefer
<1>5. EntriesFit
  <2> SUFFICES ASSUME NEW w \in Wallets, NEW i \in DOMAIN ledger[w] PROVE Fits(ledger[w][i])
    BY DEF EntriesFit
  <2>1. ledger[w][i].tx = NoTx
    BY <1>1, <1>3 DEF EntryInv, EntriesExplained, Explained
  <2> QED  BY <2>1 DEF Fits
<1> QED  BY <1>1, <1>2, <1>4, <1>5 DEF ReversalInv

LEMMA NextReversalInv == ReversalInv /\ [Next]_vars => ReversalInv'
<1> SUFFICES ASSUME ReversalInv, [Next]_vars PROVE ReversalInv'
  OBVIOUS
<1>1. LockInv' /\ EntryInv'
  BY NextLockInv, NextEntryInv DEF ReversalInv
<1> QED  BY <1>1, NextLookups, NextRowsRefer, NextEntriesFit DEF ReversalInv

LEMMA AlwaysReversalInv == Spec => []ReversalInv
  BY InitReversalInv, NextReversalInv, PTL DEF Spec

\* The entry of a row that moves its wallet is what the row did.
LEMMA EntryOfRow ==
  ASSUME ReversalInv, NEW t \in DOMAIN txs, Moving(txs[t])
  PROVE  Effect(txs[t].req, txs[t].refTx, EntryOf(t).direction, EntryOf(t).amount)
<1> DEFINE w == txs[t].req.wallet
           L == ledger[w]
           c == CHOOSE i \in DOMAIN L : L[i].tx = t
<1>1. w \in Wallets /\ \E i \in DOMAIN L : L[i].tx = t
  BY DEF ReversalInv, EntryInv, RowsHaveEntries
<1>2. c \in DOMAIN L /\ L[c].tx = t
  BY <1>1
<1>3. EntryOf(t) = L[c]
  BY DEF EntryOf
<1>4. t # NoTx
  BY DEF ReversalInv, LockInv, TypeOK, DbTypeOK, NoTx
<1> HIDE DEF c
<1>5. Fits(L[c])
  BY <1>1, <1>2 DEF ReversalInv, EntriesFit
<1> HIDE DEF L, w
<1> QED  BY <1>2, <1>3, <1>4, <1>5 DEF Fits

\* For every set of callers and requests: a paid REFUND or ROLLBACK points to the
\* earlier, paid wager it names, and moves the wallet by the same amount the other
\* way.
THEOREM AlwaysReversalUndoesReference == Spec => []ReversalUndoesReference
<1>1. ReversalInv => ReversalUndoesReference
  <2> SUFFICES ASSUME ReversalInv, NEW t \in DOMAIN txs, IsPaidReversal(t)
               PROVE  /\ txs[t].refTx \in 1..(t-1)
                      /\ txs[txs[t].refTx].req.provider = txs[t].req.provider
                      /\ txs[txs[t].refTx].req.ext = txs[t].req.ref
                      /\ txs[txs[t].refTx].status = "PROCESSED"
                      /\ txs[txs[t].refTx].req.kind \in ReversibleBy(txs[t].req.kind)
                      /\ EntryOf(t).amount = EntryOf(txs[t].refTx).amount
                      /\ EntryOf(t).direction # EntryOf(txs[t].refTx).direction
    BY DEF ReversalUndoesReference
  <2> DEFINE o == txs[t].refTx
  <2>1. /\ o < t /\ RefersTo(txs[t].req, o) /\ AmountAgrees(txs[t].req, o)
    BY DEF ReversalInv, RowsRefer
  <2>2. /\ o \in DOMAIN txs /\ txs[o].req.provider = txs[t].req.provider
        /\ txs[o].req.ext = txs[t].req.ref /\ txs[o].status = "PROCESSED"
        /\ txs[o].req.kind \in ReversibleBy(txs[t].req.kind)
    BY <2>1 DEF RefersTo
  <2>3. o \in 1..(t-1)
    BY <2>1, <2>2 DEF ReversalInv, LockInv, TypeOK, DbTypeOK
  <2> HIDE DEF o
  <2>4. txs[t].req.kind \in Reversals /\ Moving(txs[t]) /\ Moving(txs[o])
    BY <2>2 DEF IsPaidReversal, Moving, ReversibleBy, Reversals
  <2>5. /\ Effect(txs[t].req, o, EntryOf(t).direction, EntryOf(t).amount)
        /\ Effect(txs[o].req, txs[o].refTx, EntryOf(o).direction, EntryOf(o).amount)
    BY <2>2, <2>4, EntryOfRow DEF o
  <2>6. txs[o].req.kind \in {"BET", "WIN"} \/ (txs[t].req.kind = "ROLLBACK" /\ txs[o].req.kind = "REFUND")
    BY <2>2, <2>4 DEF ReversibleBy, Reversals
  <2>7. /\ EntryOf(o).amount = txs[o].req.amount
        /\ EntryOf(o).direction = IF txs[o].req.kind = "BET" THEN "DEBIT" ELSE "CREDIT"
    BY <2>5, <2>6 DEF Effect
  <2>8. /\ EntryOf(t).amount = txs[o].req.amount
        /\ EntryOf(t).direction = IF txs[o].req.kind = "BET" THEN "CREDIT" ELSE "DEBIT"
    BY <2>1, <2>2, <2>4, <2>5 DEF Effect, AmountAgrees, Reversals, ReversibleBy
  <2> QED  BY <2>2, <2>3, <2>7, <2>8 DEF o
<1> QED  BY <1>1, AlwaysReversalInv, PTL

(***************************************************************************)
(* Once per kind, while references stay in their wallet.                    *)
(***************************************************************************)
DecisionsStand ==
  \A p \in Processes :
    WillPay(p) /\ req[p].kind \in Reversals => NotReversed(req[p])

OnceInv == LockInv /\ DecisionsStand /\ OneReversalPerKind

\* A paid reversal and a decided one that name the same row lock the same wallet.
LEMMA NextDecisionsStand ==
  ASSUME ReferencesStayInWallet, OnceInv, [Next]_vars
  PROVE  DecisionsStand'
<1> SUFFICES ASSUME NEW q \in Processes, WillPay(q)', req'[q].kind \in Reversals
             PROVE  NotReversed(req[q])'
  BY DEF DecisionsStand
<1>1. CASE txs' = txs /\ WillPay(q) /\ req'[q] = req[q]
  BY <1>1 DEF OnceInv, DecisionsStand, NotReversed
<1>2. ASSUME NEW p \in Processes, Step(p) PROVE NotReversed(req[q])'
  <2>1. CASE p = q
    <3>1. Quiet(q)
      <4>1. pc'[q] \notin {"claim", "apply", "answered"}
        BY DEF WillPay
      <4> QED  BY <1>2, <2>1, <4>1, StepShape
            DEF Locks, Claims, Records, Pays, PaysEntry, Commits, OnceInv, LockInv
    <3>2. NotReversed(req[q]) /\ txs' = txs /\ req' = req
      BY <3>1 DEF Quiet, Decides, WillPay, Own, db
    <3> QED  BY <3>2 DEF NotReversed
  <2>2. CASE p # q
    <3>1. WillPay(q) /\ req'[q] = req[q]
      BY <1>2, <2>2, StepKeepsRows DEF OnceInv, LockInv, TypeOK, ProcessTypeOK, Own, WillPay
    <3>2. CASE txs' = txs
      BY <1>1, <3>1, <3>2
    <3>3. CASE txs' # txs
      <4>1. PICK row \in Row :
              /\ txs' = Append(txs, row) /\ row.req = req[p] /\ pc[p] \in Inserted
        BY <1>2, <3>3, NewRow DEF OnceInv
      <4>2. /\ txs \in Seq(Row) /\ pc[p] \in LockHeld /\ pc[q] \in LockHeld
            /\ req[p] \in Requests /\ req[q] \in Requests
        BY <3>1, <4>1 DEF OnceInv, LockInv, TypeOK, DbTypeOK, PhaseOK, LockHeld, Inserted, WillPay
      <4>3. req[p].wallet # req[q].wallet
        BY <2>2, <4>2 DEF OnceInv, LockInv, LockProtectsWallet, LockExclusive
      <4>4. ~(/\ row.req.provider = req[q].provider /\ row.req.ref = req[q].ref
              /\ row.req.kind = req[q].kind)
        BY <3>1, <4>1, <4>2, <4>3 DEF ReferencesStayInWallet
      <4>5. NotReversed(req[q])
        BY <3>1 DEF OnceInv, DecisionsStand
      <4>6. \A i \in DOMAIN txs' : (i \in DOMAIN txs /\ txs'[i] = txs[i]) \/ txs'[i] = row
        BY <4>1, <4>2, AppendProperties
      <4> QED  BY <3>1, <4>4, <4>5, <4>6 DEF NotReversed
    <3> QED  BY <3>2, <3>3
  <2> QED  BY <2>1, <2>2
<1>3. ASSUME NEW p \in Processes, Fail(p) \/ (\E r \in Requests : Receive(p, r))
      PROVE  NotReversed(req[q])'
  <2>1. /\ txs' = txs /\ pc'[p] \in {"idle", "lookup"}
        /\ p # q => pc'[q] = pc[q] /\ verdict'[q] = verdict[q] /\ req'[q] = req[q]
    BY <1>3 DEF Fail, Receive, Goto, db, OnceInv, LockInv, TypeOK, ProcessTypeOK
  <2>2. p # q
    BY <2>1 DEF WillPay
  <2> QED  BY <1>1, <2>1, <2>2 DEF WillPay
<1>4. CASE UNCHANGED vars
  BY <1>1, <1>4 DEF vars, WillPay
<1> QED  BY <1>2, <1>3, <1>4 DEF Next

\* A reversal is paid only if none of its kind has been.
LEMMA NextOneReversal ==
  ASSUME OnceInv, [Next]_vars
  PROVE  OneReversalPerKind'
<1>1. CASE txs' = txs
  BY <1>1 DEF OnceInv, OneReversalPerKind, SameReference, IsPaidReversal
<1>2. CASE txs' # txs
  <2>1. PICK p \in Processes : Step(p)
    BY <1>2 DEF Next, Receive, Fail, db, vars
  <2>2. PICK row \in Row :
          /\ txs' = Append(txs, row) /\ row.req = req[p]
          /\ row.status = "PROCESSED" /\ row.req.kind \in Reversals => WillPay(p)
    BY <1>2, <2>1, NewRow DEF OnceInv
  <2>3. txs \in Seq(Row)
    BY DEF OnceInv, LockInv, TypeOK, DbTypeOK
  <2>4. /\ Len(txs) \in Nat /\ DOMAIN txs = 1..Len(txs) /\ DOMAIN txs' = 1..(Len(txs)+1)
        /\ txs'[Len(txs)+1] = row /\ \A t \in DOMAIN txs : txs'[t] = txs[t]
    BY <2>2, <2>3, AppendProperties
  <2>5. row.status = "PROCESSED" /\ row.req.kind \in Reversals => NotReversed(row.req)
    BY <2>2 DEF OnceInv, DecisionsStand
  <2> SUFFICES ASSUME NEW s \in DOMAIN txs', NEW t \in DOMAIN txs',
                      SameReference(s, t)', txs'[s].req.kind = txs'[t].req.kind
               PROVE  s = t
    BY DEF OneReversalPerKind
  <2>6. CASE s \in DOMAIN txs /\ t \in DOMAIN txs
    BY <2>4, <2>6 DEF OnceInv, OneReversalPerKind, SameReference, IsPaidReversal
  <2>7. CASE s \in DOMAIN txs /\ t = Len(txs) + 1
    BY <2>4, <2>5, <2>7 DEF SameReference, IsPaidReversal, NotReversed
  <2>8. CASE t \in DOMAIN txs /\ s = Len(txs) + 1
    BY <2>4, <2>5, <2>8 DEF SameReference, IsPaidReversal, NotReversed
  <2> QED  BY <2>4, <2>6, <2>7, <2>8
<1> QED  BY <1>1, <1>2

\* If no two requests carry one reference into two wallets, a wager is refunded at
\* most once and rolled back at most once, however its reversals race: both hold
\* the lock of the same wallet while they look and pay.
THEOREM AlwaysOneReversalPerKind ==
  ASSUME ReferencesStayInWallet
  PROVE  Spec => []OneReversalPerKind
<1>1. Init => OnceInv
  <2>1. Init => DecisionsStand /\ OneReversalPerKind
    BY DEF Init, DecisionsStand, WillPay, OneReversalPerKind
  <2> QED  BY <2>1, InitLockInv DEF OnceInv
<1>2. OnceInv /\ [Next]_vars => OnceInv'
  <2> SUFFICES ASSUME OnceInv, [Next]_vars PROVE OnceInv'
    OBVIOUS
  <2>1. LockInv'
    BY NextLockInv DEF OnceInv
  <2> QED  BY <2>1, NextDecisionsStand, NextOneReversal DEF OnceInv
<1>3. OnceInv => OneReversalPerKind
  BY DEF OnceInv
<1> QED  BY <1>1, <1>2, <1>3, PTL DEF Spec

(***************************************************************************)
(* Waiting.                                                                 *)
(***************************************************************************)
\* What p is doing has been decided: only a reversal is looked up, and its outcome
\* is known when it is settled.
Considered(p) ==
  pc[p] \in {"reversal", "settle"} =>
    /\ req[p].kind \in Reversals
    /\ pc[p] = "settle" => verdict[p] \in Verdicts \ {"none"}

CaseInv == ReversalInv /\ \A p \in Processes : Considered(p)

\* Only the two lookups lead to the phases of a reversal.
LEMMA LooksUp ==
  ASSUME TypeOK, NEW q \in Processes, Step(q), pc'[q] \in {"reversal", "settle"}
  PROVE  FindReference(q) \/ FindReversal(q)
<1>1. \A o : ~Answer(q, o)
  BY DEF Answer, Goto, TypeOK, ProcessTypeOK
<1>2. ~Goto(q, "begin") /\ ~Goto(q, "lock") /\ ~Goto(q, "claim") /\ ~Goto(q, "raced")
      /\ ~Goto(q, "apply")
  BY DEF Goto, TypeOK, ProcessTypeOK
<1>3. \A e : ~Abort(q, e)
  BY <1>1 DEF Abort
<1>4. \A c : ~RejectTransaction(q, c)
  BY <1>1 DEF RejectTransaction
<1>5. \A d, a : ~CommitSuccess(q, d, a)
  BY <1>1, <1>3 DEF CommitSuccess
<1>6. \A a : ~Credit(q, a) /\ \A c : ~Debit(q, a, c)
  BY <1>3, <1>4, <1>5 DEF Credit, Debit
<1>7. ~Lookup(q) /\ ~Begin(q) /\ ~LockWallet(q) /\ ~TryCreate(q) /\ ~AnswerRaced(q)
  BY <1>1, <1>2, <1>3 DEF Lookup, Begin, LockWallet, TryCreate, AnswerRaced, HandleExisting
<1>8. /\ ~ProcessBet(q) /\ ~ProcessWin(q) /\ ~ProcessLoss(q) /\ ~MarkPendingReference(q)
      /\ ~RefuseReversal(q) /\ ~SettleRefund(q) /\ ~SettleRollback(q)
  BY <1>1, <1>3, <1>4, <1>6 DEF ProcessBet, ProcessWin, ProcessLoss, MarkPendingReference,
     RefuseReversal, SettleRefund, SettleRollback
<1> QED  BY <1>7, <1>8 DEF Step

\* The step of a process itself.
LEMMA OwnConsidered ==
  ASSUME CaseInv, NEW p \in Processes, Step(p)
  PROVE  Considered(p)'
<1> USE DEF CaseInv, ReversalInv, LockInv
<1> SUFFICES ASSUME pc'[p] \in {"reversal", "settle"}
             PROVE  /\ req'[p].kind \in Reversals
                    /\ pc'[p] = "settle" => verdict'[p] \in Verdicts \ {"none"}
  BY DEF Considered
<1>1. CASE FindReference(p)
  <2> DEFINE v == ReferenceVerdict(req[p].kind, FindByProviderAndExternalID(req[p].provider, req[p].ref))
  <2>1. req' = req /\ req[p].kind \in Reversals /\ verdict'[p] = v
    BY <1>1 DEF FindReference, TypeOK, ProcessTypeOK
  <2>2. v \in {"postpone", "REFERENCE_NOT_FOUND", "move"}
    BY DEF ReferenceVerdict
  <2> HIDE DEF v
  <2> QED  BY <2>1, <2>2 DEF Verdicts, Refusals
<1>2. CASE FindReversal(p)
  <2> DEFINE v == ReversalVerdict(req[p], txs[ref[p]].req)
  <2>1. req' = req /\ pc[p] = "reversal" /\ verdict'[p] = v
    BY <1>2 DEF FindReversal, TypeOK, ProcessTypeOK
  <2>2. v \in {"REFERENCE_ALREADY_REVERSED", "AMOUNT_MISMATCH", "move"}
    BY DEF ReversalVerdict
  <2> HIDE DEF v
  <2>3. req[p].kind \in Reversals
    BY <2>1 DEF Considered
  <2> QED  BY <2>1, <2>2, <2>3 DEF Verdicts, Refusals
<1> QED  BY <1>1, <1>2, LooksUp

LEMMA NextCaseInv == CaseInv /\ [Next]_vars => CaseInv'
<1> SUFFICES ASSUME CaseInv, [Next]_vars PROVE CaseInv'
  OBVIOUS
<1>1. ReversalInv'
  BY NextReversalInv DEF CaseInv
<1> SUFFICES ASSUME NEW q \in Processes PROVE Considered(q)'
  BY <1>1 DEF CaseInv
<1>2. ASSUME pc'[q] = pc[q], req'[q] = req[q], verdict'[q] = verdict[q]
      PROVE  Considered(q)'
  BY <1>2 DEF CaseInv, Considered
<1>3. ASSUME NEW p \in Processes, Step(p), p # q PROVE Considered(q)'
  <2>1. pc'[q] = pc[q] /\ req'[q] = req[q] /\ verdict'[q] = verdict[q]
    BY <1>3, StepKeepsRows DEF Own, CaseInv, ReversalInv, LockInv, TypeOK, ProcessTypeOK
  <2> QED  BY <1>2, <2>1
<1>4. ASSUME NEW p \in Processes, Fail(p) \/ (\E r \in Requests : Receive(p, r))
      PROVE  Considered(q)'
  <2>1. /\ pc'[p] \in {"idle", "lookup"}
        /\ p # q => pc'[q] = pc[q] /\ req'[q] = req[q] /\ verdict'[q] = verdict[q]
    BY <1>4 DEF Fail, Receive, Goto, CaseInv, ReversalInv, LockInv, TypeOK, ProcessTypeOK
  <2> QED  BY <1>2, <2>1 DEF Considered
<1>5. CASE UNCHANGED vars
  BY <1>2, <1>5 DEF vars
<1> QED  BY <1>3, <1>4, <1>5, OwnConsidered DEF Next

LEMMA AlwaysCaseInv == Spec => []CaseInv
<1>1. Init => CaseInv
  <2>1. Init => \A p \in Processes : Considered(p)
    BY DEF Init, Considered
  <2> QED  BY <2>1, InitReversalInv DEF CaseInv
<1> QED  BY <1>1, NextCaseInv, PTL DEF Spec

\* Whatever an open transaction has found, the code has a case for it.
LEMMA EveryoneHasACase ==
  ASSUME CaseInv, NEW p \in Processes
  PROVE  HasCase(p)
<1> USE DEF CaseInv, ReversalInv, LockInv
<1>1. ASSUME pc[p] = "raced" PROVE FindByIdempotencyKey(req[p].key) # NoTx
  <2> DEFINE rows == {i \in DOMAIN txs : txs[i].req.key = req[p].key}
  <2>1. rows # {} /\ FindByIdempotencyKey(req[p].key) = TheRow(rows)
    BY <1>1 DEF FindByIdempotencyKey, TypeOK, PhaseOK
  <2>2. TheRow(rows) \in rows
    BY <2>1 DEF TheRow
  <2>3. rows \subseteq 1..Len(txs)
    BY DEF TypeOK, DbTypeOK
  <2> QED  BY <2>1, <2>2, <2>3 DEF NoTx
<1>2. ASSUME pc[p] = "apply" PROVE req[p].kind \in {"BET", "WIN", "LOSS"} \cup Reversals
  <2>1. WellFormed(req[p].kind, req[p].amount, req[p].ref # NoRef)
    BY <1>2 DEF TypeOK, PhaseOK, LockHeld, Inserted
  <2> QED  BY <2>1 DEF WellFormed, Kinds, Reversals
<1>3. ASSUME pc[p] = "reversal" PROVE ref[p] \in DOMAIN txs
  BY <1>3 DEF TypeOK, PhaseOK
<1>4. ASSUME pc[p] = "settle", verdict[p] = "move", req[p].kind = "ROLLBACK"
      PROVE  ref[p] \in DOMAIN txs /\ txs[ref[p]].req.kind \in {"BET", "WIN", "REFUND"}
  <2>1. RefersTo(req[p], ref[p])
    BY <1>4 DEF LookupsStand, WillPay
  <2> QED  BY <1>4, <2>1 DEF RefersTo, ReversibleBy
<1>5. ASSUME pc[p] = "settle"
      PROVE  /\ req[p].kind \in {"REFUND", "ROLLBACK"}
             /\ verdict[p] \in {"postpone", "move"} \cup FailureCodes
  BY <1>5 DEF Considered, Reversals, Verdicts, Refusals, FailureCodes
<1> QED  BY <1>1, <1>2, <1>3, <1>4, <1>5 DEF HasCase

\* No open transaction waits for a connection.
NoneLacksConnection ==
  \A p \in Processes : pc[p] \in InTx /\ NeedsConnection(p) => FreeConnection

\* Then whoever has inserted its row waits for nobody, and whoever holds a lock waits
\* at most for one that has.
LEMMA HoldersProceed ==
  ASSUME CaseInv, NoneLacksConnection, NEW q \in Processes, pc[q] \in LockHeld
  PROVE  \/ CanProceed(q)
         \/ \E s \in Processes : WaitsFor(q, s) /\ CanProceed(s)
<1>1. ASSUME NEW s \in Processes, pc[s] \in Inserted PROVE CanProceed(s)
  <2>1. Running(s) /\ pc[s] \notin {"lock", "claim"} /\ pc[s] \in InTx
    BY <1>1 DEF Running, Inserted, LockHeld, InTx
  <2>2. \A t \in Processes : ~WaitsFor(s, t)
    BY <2>1 DEF WaitsFor
  <2> QED  BY <2>1, <2>2, EveryoneHasACase DEF CanProceed, Waits, NoneLacksConnection
<1>2. CASE \E s \in Processes : WaitsFor(q, s)
  <2>1. PICK s \in Processes : WaitsFor(q, s)
    BY <1>2
  <2>2. pc[s] \in Inserted
    BY <2>1 DEF WaitsFor, KeyInDoubt, LockHeld, Inserted
  <2> QED  BY <1>1, <2>1, <2>2
<1>3. CASE ~\E s \in Processes : WaitsFor(q, s)
  <2>1. Running(q) /\ pc[q] \in InTx
    BY DEF Running, LockHeld, Inserted, InTx
  <2> QED  BY <1>3, <2>1, EveryoneHasACase DEF CanProceed, Waits, NoneLacksConnection
<1> QED  BY <1>2, <1>3

LEMMA WaitsAreShort ==
  ASSUME CaseInv, NoneLacksConnection
  PROVE  EveryWaitEnds
<1> SUFFICES ASSUME NEW p \in Processes, pc[p] \in InTx
             PROVE  \/ CanProceed(p)
                    \/ \E q \in Processes :
                         /\ WaitsFor(p, q)
                         /\ CanProceed(q) \/ \E s \in Processes : WaitsFor(q, s) /\ CanProceed(s)
  BY DEF EveryWaitEnds
<1>1. CASE pc[p] \in LockHeld
  BY <1>1, HoldersProceed
<1>2. CASE pc[p] = "lock" /\ \E q \in Processes : WaitsFor(p, q)
  <2>1. PICK q \in Processes : WaitsFor(p, q)
    BY <1>2
  <2>2. pc[q] \in LockHeld
    BY <1>2, <2>1 DEF WaitsFor
  <2> QED  BY <2>1, <2>2, HoldersProceed
<1>3. CASE pc[p] = "lock" /\ ~\E q \in Processes : WaitsFor(p, q)
  <2>1. Running(p)
    BY <1>3 DEF Running
  <2> QED  BY <1>3, <2>1, EveryoneHasACase DEF CanProceed, Waits, NoneLacksConnection
<1> QED  BY <1>1, <1>2, <1>3 DEF InTx

\* However many callers and whatever the size of the pool: while one connection is
\* free, nobody's wait is circular.  The lock of the wallet comes first, and who has
\* inserted a key asks for no other lock.
THEOREM OnlyThePoolDeadlocks == Spec => [](FreeConnection => EveryWaitEnds)
<1>1. CaseInv => (FreeConnection => EveryWaitEnds)
  BY WaitsAreShort DEF NoneLacksConnection
<1> QED  BY <1>1, AlwaysCaseInv, PTL

\* However many callers and whatever the size of the pool: if none of the open
\* transactions can go on, the pool is exhausted and one of them is at a lookup that
\* needs a second connection.  Row locks and unique indexes alone never stop them all.
THEOREM DeadlockNeedsASecondConnection ==
  Spec => [](\/ SomeoneCanProceed
             \/ /\ ~FreeConnection
                /\ \E p \in Processes : pc[p] \in InTx /\ NeedsConnection(p))
<1>1. ASSUME CaseInv, NoneLacksConnection PROVE SomeoneCanProceed
  <2> SUFFICES ASSUME NEW p \in Processes, pc[p] \in InTx
               PROVE  \E q \in Processes : pc[q] \in InTx /\ CanProceed(q)
    BY DEF SomeoneCanProceed
  <2>1. \A q, s \in Processes : WaitsFor(q, s) => pc[s] \in InTx
    BY DEF WaitsFor, KeyInDoubt, InTx, LockHeld, Inserted
  <2>2. \/ CanProceed(p)
        \/ \E q \in Processes :
             /\ WaitsFor(p, q)
             /\ CanProceed(q) \/ \E s \in Processes : WaitsFor(q, s) /\ CanProceed(s)
    BY <1>1, WaitsAreShort DEF EveryWaitEnds
  <2> QED  BY <2>1, <2>2
<1>2. CaseInv => \/ SomeoneCanProceed
                 \/ /\ ~FreeConnection
                    /\ \E p \in Processes : pc[p] \in InTx /\ NeedsConnection(p)
  BY <1>1 DEF NoneLacksConnection
<1> QED  BY <1>2, AlwaysCaseInv, PTL

(***************************************************************************)
(* Events.                                                                  *)
(***************************************************************************)
EventsHaveRows == \A i \in DOMAIN outbox : outbox[i].tx \in DOMAIN txs

InLedger(t, e) ==
  /\ e.tx = t /\ txs[t].req.wallet \in Wallets
  /\ \E k \in DOMAIN ledger[txs[t].req.wallet] : ledger[txs[t].req.wallet][k] = e

\* The outbox tells of row t; its BalanceChanged event repeats some entry of the row.
Told(t) ==
  \E i, j \in EventsOf(t) :
    /\ EventsOf(t) = {i, j} /\ i <= j
    /\ outbox[i].type = EventType(txs[t].status)
    /\ IF Moving(txs[t])
       THEN outbox[j].type = "BalanceChanged" /\ InLedger(t, outbox[j].entry)
       ELSE i = j
RowsTold == \A t \in DOMAIN txs : Told(t)

\* The next balance event of a wallet carries the next version.
VersionsCounted == \A w \in Wallets : wallets[w].version = 1 + Cardinality(BalanceEvents(w))

EventInv == EventsHaveRows /\ RowsTold /\ VersionsCounted /\ BalanceEventsAreGapless

LEMMA InitEventInv == Init => EventInv
<1> SUFFICES ASSUME Init PROVE EventInv
  OBVIOUS
<1>1. outbox = <<>> /\ txs = <<>> /\ \A w \in Wallets : wallets[w].version = 1
  BY DEF Init
<1>2. \A w \in Wallets : BalanceEvents(w) = {}
  BY <1>1 DEF BalanceEvents
<1>3. Cardinality({}) = 0
  BY FS_EmptySet
<1>4. EventsHaveRows /\ RowsTold
  BY <1>1 DEF EventsHaveRows, RowsTold
<1>5. VersionsCounted
  <2> SUFFICES ASSUME NEW w \in Wallets
               PROVE  wallets[w].version = 1 + Cardinality(BalanceEvents(w))
    BY DEF VersionsCounted
  <2>1. Cardinality(BalanceEvents(w)) = 0
    BY <1>2, <1>3
  <2>2. wallets[w].version = 1
    BY <1>1
  <2> QED  BY <2>1, <2>2
<1>6. BalanceEventsAreGapless
  BY <1>2 DEF BalanceEventsAreGapless
<1> QED  BY <1>4, <1>5, <1>6 DEF EventInv

LEMMA BalanceEventsFinite ==
  ASSUME LockInv, NEW w
  PROVE  /\ IsFiniteSet(BalanceEvents(w)) /\ Cardinality(BalanceEvents(w)) \in Nat
         /\ BalanceEvents(w) \subseteq 1..Len(outbox)
<1>1. BalanceEvents(w) \subseteq 1..Len(outbox) /\ Len(outbox) \in Nat
  BY DEF LockInv, TypeOK, DbTypeOK, BalanceEvents
<1>2. IsFiniteSet(BalanceEvents(w))
  <2>1. PICK n \in Nat : n = Len(outbox)
    BY <1>1
  <2>2. IsFiniteSet(1..n)
    BY FS_Interval
  <2> QED  BY <1>1, <2>1, <2>2, FS_Subset
<1> QED  BY <1>1, <1>2, FS_CardinalityType

\* The events of a new row leave those of the others alone.
LEMMA OldEventsStand ==
  ASSUME LockInv, EventInv, NEW row \in Row, txs' = Append(txs, row),
         NEW n \in Nat, n = Len(outbox), NEW m \in Nat,
         outbox' \in Seq(EventRow), Len(outbox') = n + m,
         \A i \in 1..n : outbox'[i] = outbox[i],
         \A i \in (n+1)..(n+m) : outbox'[i].tx = Len(txs) + 1
  PROVE  /\ EventsHaveRows'
         /\ \A t \in DOMAIN txs : EventsOf(t)' = EventsOf(t)
         /\ {i \in DOMAIN outbox' : outbox'[i].tx = Len(txs) + 1} = (n+1)..(n+m)
         /\ \A w : \A i \in 1..n : i \in BalanceEvents(w)' <=> i \in BalanceEvents(w)
<1>1. PICK k \in Nat : k = Len(txs) + 1
  BY DEF LockInv, TypeOK, DbTypeOK
<1>2. /\ DOMAIN txs = 1..(k-1) /\ DOMAIN txs' = 1..k
      /\ \A t \in DOMAIN txs : t \in DOMAIN txs' /\ t # k /\ txs'[t] = txs[t]
  BY <1>1, AppendProperties DEF LockInv, TypeOK, DbTypeOK
<1>3. DOMAIN outbox = 1..n /\ DOMAIN outbox' = 1..(n+m)
  BY DEF LockInv, TypeOK, DbTypeOK
<1>4. \A i \in 1..n : i \in 1..(n+m) /\ outbox'[i] = outbox[i] /\ outbox[i].tx \in DOMAIN txs
  BY <1>3 DEF EventInv, EventsHaveRows
<1>5. \A i \in 1..(n+m) : i \in 1..n \/ i \in (n+1)..(n+m)
  OBVIOUS
<1>6. \A i \in (n+1)..(n+m) : i \in 1..(n+m) /\ i \notin 1..n /\ outbox'[i].tx = k
  BY <1>1
<1>7. k \in DOMAIN txs'
  BY <1>1, <1>2
<1>8. EventsHaveRows'
  BY <1>2, <1>3, <1>4, <1>5, <1>6, <1>7 DEF EventsHaveRows
<1>9. ASSUME NEW t \in DOMAIN txs PROVE EventsOf(t)' = EventsOf(t)
  <2>1. {i \in DOMAIN outbox' : outbox'[i].tx = t} = {i \in DOMAIN outbox : outbox[i].tx = t}
    BY <1>2, <1>3, <1>4, <1>5, <1>6
  <2> QED  BY <2>1 DEF EventsOf
<1>10. {i \in DOMAIN outbox' : outbox'[i].tx = k} = (n+1)..(n+m)
  BY <1>2, <1>3, <1>4, <1>5, <1>6
<1>11. ASSUME NEW w, NEW i \in 1..n PROVE i \in BalanceEvents(w)' <=> i \in BalanceEvents(w)
  BY <1>2, <1>3, <1>4 DEF BalanceEvents
<1> QED  BY <1>1, <1>8, <1>9, <1>10, <1>11

\* A row that is told of stays so: its row and its entry do not change.
LEMMA OldRowsTold ==
  ASSUME RowsTold, NEW t \in DOMAIN txs, txs'[t] = txs[t], EventsOf(t)' = EventsOf(t),
         EventsOf(t) \subseteq DOMAIN outbox,
         \A i \in DOMAIN outbox : outbox'[i] = outbox[i],
         \A w \in Wallets : \A k \in DOMAIN ledger[w] :
           k \in DOMAIN ledger'[w] /\ ledger'[w][k] = ledger[w][k]
  PROVE  Told(t)'
<1>1. PICK i, j \in EventsOf(t) :
        /\ EventsOf(t) = {i, j} /\ i <= j
        /\ outbox[i].type = EventType(txs[t].status)
        /\ IF Moving(txs[t])
           THEN outbox[j].type = "BalanceChanged" /\ InLedger(t, outbox[j].entry)
           ELSE i = j
  BY DEF RowsTold, Told
<1>2. outbox'[i] = outbox[i] /\ outbox'[j] = outbox[j]
  BY <1>1
<1>3. EventsOf(t)' = {i, j}
  BY <1>1
<1>4. Moving(txs[t]) => InLedger(t, outbox[j].entry)'
  BY <1>1, <1>2 DEF InLedger
<1>5. outbox'[i].type = EventType(txs'[t].status)
  BY <1>1, <1>2
<1>6. Moving(txs'[t]) => outbox'[j].type = "BalanceChanged"
  BY <1>1, <1>2
<1>7. ~Moving(txs'[t]) => i = j
  BY <1>1
<1> QED  BY <1>1, <1>2, <1>3, <1>4, <1>5, <1>6, <1>7 DEF Told, Moving, EventType

LEMMA RecordsEventInv ==
  ASSUME LockInv, EventInv, NEW p \in Processes, Records(p)
  PROVE  EventInv'
<1>1. PICK row \in Row : /\ Commits(p, row) /\ ~Moving(row) /\ UNCHANGED <<wallets, ledger>>
                         /\ outbox' = Append(outbox, Event(EventType(row.status), NextId, Null, 0))
  BY DEF Records
<1>2. PICK n \in Nat : n = Len(outbox)
  BY DEF LockInv, TypeOK, DbTypeOK
<1>3. PICK k \in Nat : k = Len(txs) + 1
  BY DEF LockInv, TypeOK, DbTypeOK
<1>4. PICK e : e = Event(EventType(row.status), NextId, Null, 0)
  OBVIOUS
<1>5. e.type = EventType(row.status) /\ e.type # "BalanceChanged" /\ e.tx = k
  BY <1>3, <1>4 DEF Event, EventType, NextId
<1>6. outbox \in Seq(EventRow) /\ outbox' \in Seq(EventRow) /\ txs' = Append(txs, row)
  BY <1>1 DEF LockInv, TypeOK, DbTypeOK, Commits
<1>7. /\ Len(outbox') = n + 1 /\ \A i \in 1..n : outbox'[i] = outbox[i]
      /\ outbox'[n+1] = e /\ DOMAIN outbox = 1..n /\ DOMAIN outbox' = 1..(n+1)
  BY <1>1, <1>2, <1>4, <1>6
<1>8. \A i \in (n+1)..(n+1) : outbox'[i].tx = k
  BY <1>5, <1>7
<1>9. /\ EventsHaveRows'
      /\ \A t \in DOMAIN txs : EventsOf(t)' = EventsOf(t)
      /\ {i \in DOMAIN outbox' : outbox'[i].tx = k} = (n+1)..(n+1)
      /\ \A w : \A i \in 1..n : i \in BalanceEvents(w)' <=> i \in BalanceEvents(w)
  BY <1>2, <1>3, <1>6, <1>7, <1>8, OldEventsStand
<1>10. /\ DOMAIN txs = 1..(k-1) /\ DOMAIN txs' = 1..k /\ txs'[k] = row
       /\ \A t \in DOMAIN txs : txs'[t] = txs[t]
  BY <1>3, <1>6, AppendProperties DEF LockInv, TypeOK, DbTypeOK
<1>11. RowsTold'
  <2> SUFFICES ASSUME NEW t \in DOMAIN txs' PROVE Told(t)'
    BY DEF RowsTold
  <2>1. CASE t \in DOMAIN txs
    <3>1. EventsOf(t) \subseteq DOMAIN outbox
      BY DEF EventsOf
    <3> QED  BY <1>1, <1>7, <1>9, <1>10, <2>1, <3>1, OldRowsTold DEF EventInv
  <2>2. CASE t = k
    <3>1. EventsOf(t)' = {n + 1}
      BY <1>9, <2>2 DEF EventsOf
    <3>2. ~Moving(txs'[t]) /\ outbox'[n+1].type = EventType(txs'[t].status)
      BY <1>1, <1>5, <1>7, <1>10, <2>2
    <3> QED  BY <1>2, <3>1, <3>2 DEF Told, Moving, EventType
  <2> QED  BY <1>10, <2>1, <2>2
<1>12. \A w \in Wallets : BalanceEvents(w)' = BalanceEvents(w)
  <2> SUFFICES ASSUME NEW w \in Wallets PROVE BalanceEvents(w)' = BalanceEvents(w)
    OBVIOUS
  <2>1. BalanceEvents(w)' \subseteq 1..n
    BY <1>5, <1>7 DEF BalanceEvents
  <2>2. BalanceEvents(w) \subseteq 1..n
    BY <1>7 DEF BalanceEvents
  <2>3. \A i \in 1..n : i \in BalanceEvents(w)' <=> i \in BalanceEvents(w)
    BY <1>9
  <2> QED  BY <2>1, <2>2, <2>3
<1>13. VersionsCounted'
  BY <1>1, <1>12 DEF EventInv, VersionsCounted
<1>14. BalanceEventsAreGapless'
  <2> SUFFICES ASSUME NEW w \in Wallets, NEW i \in BalanceEvents(w)
               PROVE  outbox'[i].version = 2 + Cardinality({j \in BalanceEvents(w) : j < i})
    BY <1>12 DEF BalanceEventsAreGapless
  <2>1. outbox'[i] = outbox[i]
    BY <1>7 DEF BalanceEvents
  <2> QED  BY <2>1 DEF EventInv, BalanceEventsAreGapless
<1> QED  BY <1>9, <1>11, <1>13, <1>14 DEF EventInv

\* The Processed event and, behind it, the BalanceChanged event, with the next version.
LEMMA PaysEventInv ==
  ASSUME LockInv, EventInv, NEW p \in Processes, Pays(p)
  PROVE  EventInv'
<1>1. PICK row \in Row, entry \in Entry : PaysEntry(p, row, entry)
  BY DEF Pays
<1>2. PICK n \in Nat : n = Len(outbox)
  BY DEF LockInv, TypeOK, DbTypeOK
<1>3. PICK k \in Nat : k = Len(txs) + 1
  BY DEF LockInv, TypeOK, DbTypeOK
<1>4. PICK v : v = req[p].wallet
  OBVIOUS
<1>5. /\ v \in Wallets /\ snap[p] = wallets[v] /\ row.req.wallet = v
      /\ Moving(row) /\ row.status = "PROCESSED" /\ entry.tx = k
  BY <1>1, <1>3, <1>4, Settling DEF PaysEntry, Commits, LockInv, SnapshotCurrent, Moving, NextId
<1>6. PICK d, e : /\ d = Event("Processed", NextId, Null, 0)
                  /\ e = Event("BalanceChanged", NextId, entry, snap[p].version + 1)
  OBVIOUS
<1>7. /\ d.type = "Processed" /\ d.tx = k
      /\ e.type = "BalanceChanged" /\ e.tx = k /\ e.entry = entry /\ e.version = wallets[v].version + 1
  BY <1>3, <1>5, <1>6 DEF Event, NextId
<1>8. /\ outbox \in Seq(EventRow) /\ outbox' \in Seq(EventRow) /\ txs' = Append(txs, row)
      /\ outbox' = outbox \o <<d, e>>
  BY <1>1, <1>6 DEF LockInv, TypeOK, DbTypeOK, Commits, PaysEntry
<1>9. /\ wallets' = [wallets EXCEPT ![v] = [balance |-> entry.after, version |-> wallets[v].version + 1]]
      /\ ledger' = [ledger EXCEPT ![v] = Append(@, entry)]
  BY <1>1, <1>4, <1>5 DEF PaysEntry
<1>10. /\ Len(outbox') = n + 2 /\ \A i \in 1..n : outbox'[i] = outbox[i]
       /\ outbox'[n+1] = d /\ outbox'[n+2] = e /\ DOMAIN outbox = 1..n /\ DOMAIN outbox' = 1..(n+2)
  BY <1>2, <1>8
<1>11. \A i \in (n+1)..(n+2) : outbox'[i].tx = k
  <2>1. \A i \in (n+1)..(n+2) : i = n + 1 \/ i = n + 2
    OBVIOUS
  <2> QED  BY <1>7, <1>10, <2>1
<1>12. /\ EventsHaveRows'
       /\ \A t \in DOMAIN txs : EventsOf(t)' = EventsOf(t)
       /\ {i \in DOMAIN outbox' : outbox'[i].tx = k} = (n+1)..(n+2)
       /\ \A w : \A i \in 1..n : i \in BalanceEvents(w)' <=> i \in BalanceEvents(w)
  BY <1>2, <1>3, <1>8, <1>10, <1>11, OldEventsStand
<1>13. /\ DOMAIN txs = 1..(k-1) /\ DOMAIN txs' = 1..k /\ txs'[k] = row
       /\ \A t \in DOMAIN txs : txs'[t] = txs[t]
  BY <1>3, <1>8, AppendProperties DEF LockInv, TypeOK, DbTypeOK
<1>14. /\ \A w \in Wallets : \A i \in DOMAIN ledger[w] :
            i \in DOMAIN ledger'[w] /\ ledger'[w][i] = ledger[w][i]
       /\ \E i \in DOMAIN ledger'[v] : ledger'[v][i] = entry
  <2>1. ledger \in [Wallets -> Seq(Entry)]
    BY DEF LockInv, TypeOK, DbTypeOK
  <2>2. \A w \in Wallets \ {v} : ledger'[w] = ledger[w]
    BY <1>5, <1>9, <2>1
  <2>3. PICK s \in Seq(Entry) : s = ledger[v]
    BY <1>5, <2>1
  <2>4. ledger'[v] = Append(s, entry)
    BY <1>5, <1>9, <2>1, <2>3
  <2>5. /\ \A i \in DOMAIN s : i \in DOMAIN Append(s, entry) /\ Append(s, entry)[i] = s[i]
        /\ Len(s) + 1 \in DOMAIN Append(s, entry) /\ Append(s, entry)[Len(s) + 1] = entry
    BY AppendProperties
  <2> QED  BY <2>2, <2>3, <2>4, <2>5
<1>15. RowsTold'
  <2> SUFFICES ASSUME NEW t \in DOMAIN txs' PROVE Told(t)'
    BY DEF RowsTold
  <2>1. CASE t \in DOMAIN txs
    <3>1. EventsOf(t) \subseteq DOMAIN outbox
      BY DEF EventsOf
    <3> QED  BY <1>10, <1>12, <1>13, <1>14, <2>1, <3>1, OldRowsTold DEF EventInv
  <2>2. CASE t = k
    <3>1. EventsOf(t)' = {n + 1, n + 2} /\ n + 1 <= n + 2
      BY <1>12, <2>2 DEF EventsOf
    <3>2. /\ Moving(txs'[t]) /\ outbox'[n+1].type = EventType(txs'[t].status)
          /\ outbox'[n+2].type = "BalanceChanged" /\ outbox'[n+2].entry = entry
      BY <1>5, <1>7, <1>10, <1>13, <2>2 DEF EventType
    <3>3. InLedger(t, outbox[n+2].entry)'
      BY <1>5, <1>13, <1>14, <2>2, <3>2 DEF InLedger
    <3> QED  BY <3>1, <3>2, <3>3 DEF Told, Moving, EventType
  <2> QED  BY <1>13, <2>1, <2>2
<1>16. /\ BalanceEvents(v)' = BalanceEvents(v) \cup {n + 2}
       /\ \A w \in Wallets \ {v} : BalanceEvents(w)' = BalanceEvents(w)
       /\ \A w \in Wallets : BalanceEvents(w) \subseteq 1..n
  <2>1. k \in DOMAIN txs' /\ txs'[k].req.wallet = v
    BY <1>3, <1>5, <1>13
  <2>2. \A w : n + 1 \notin BalanceEvents(w)'
    BY <1>7, <1>10 DEF BalanceEvents
  <2>3. \A w : n + 2 \in BalanceEvents(w)' <=> w = v
    BY <1>7, <1>10, <2>1 DEF BalanceEvents
  <2>4. \A w : BalanceEvents(w)' \subseteq 1..(n+2) /\ BalanceEvents(w) \subseteq 1..n
    BY <1>10 DEF BalanceEvents
  <2>5. \A i \in 1..(n+2) : i \in 1..n \/ i = n + 1 \/ i = n + 2
    OBVIOUS
  <2> QED  BY <1>12, <2>2, <2>3, <2>4, <2>5
<1>17. \A w \in Wallets : IsFiniteSet(BalanceEvents(w)) /\ Cardinality(BalanceEvents(w)) \in Nat
  BY BalanceEventsFinite
<1>18. Cardinality(BalanceEvents(v)') = Cardinality(BalanceEvents(v)) + 1
  <2>1. n + 2 \notin BalanceEvents(v)
    BY <1>5, <1>16
  <2> QED  BY <1>5, <1>16, <1>17, <2>1, FS_AddElement
<1>19. VersionsCounted'
  <2> SUFFICES ASSUME NEW w \in Wallets
               PROVE  wallets'[w].version = 1 + Cardinality(BalanceEvents(w)')
    BY DEF VersionsCounted
  <2>1. wallets \in [Wallets -> WalletRow] /\ wallets[w].version = 1 + Cardinality(BalanceEvents(w))
    BY DEF EventInv, VersionsCounted, LockInv, TypeOK, DbTypeOK
  <2>2. CASE w = v
    BY <1>5, <1>9, <1>17, <1>18, <2>1, <2>2
  <2>3. CASE w # v
    BY <1>5, <1>9, <1>16, <2>1, <2>3
  <2> QED  BY <2>2, <2>3
<1>20. BalanceEventsAreGapless'
  <2> SUFFICES ASSUME NEW w \in Wallets, NEW i \in BalanceEvents(w)'
               PROVE  outbox'[i].version = 2 + Cardinality({j \in BalanceEvents(w)' : j < i})
    BY DEF BalanceEventsAreGapless
  <2>1. CASE i \in BalanceEvents(w)
    <3>1. i \in 1..n
      BY <1>16, <2>1
    <3>2. {j \in BalanceEvents(w)' : j < i} = {j \in BalanceEvents(w) : j < i}
      BY <1>16, <3>1
    <3> QED  BY <1>10, <2>1, <3>1, <3>2 DEF EventInv, BalanceEventsAreGapless
  <2>2. CASE i \notin BalanceEvents(w)
    <3>1. w = v /\ i = n + 2
      BY <1>16, <2>2
    <3>2. {j \in BalanceEvents(w)' : j < i} = BalanceEvents(v)
      BY <1>5, <1>16, <3>1
    <3>3. wallets[v].version = 1 + Cardinality(BalanceEvents(v))
      BY <1>5 DEF EventInv, VersionsCounted
    <3>4. outbox'[i].version = wallets[v].version + 1
      BY <1>7, <1>10, <3>1
    <3>5. PICK c \in Nat : c = Cardinality(BalanceEvents(v))
      BY <1>5, <1>17
    <3>6. Cardinality({j \in BalanceEvents(w)' : j < i}) = c
      BY <3>2, <3>5
    <3>7. wallets[v].version + 1 = 2 + c
      BY <3>3, <3>5
    <3> QED  BY <3>4, <3>6, <3>7
  <2> QED  BY <2>1, <2>2
<1> QED  BY <1>12, <1>15, <1>19, <1>20 DEF EventInv

LEMMA NextEventInv == LockInv /\ EventInv /\ [Next]_vars => EventInv'
<1> SUFFICES ASSUME LockInv, EventInv, [Next]_vars PROVE EventInv'
  OBVIOUS
<1>1. CASE UNCHANGED db
  <2>1. UNCHANGED <<wallets, txs, ledger, outbox>>
    BY <1>1 DEF db
  <2>2. (\A t : EventsOf(t)' = EventsOf(t)) /\ \A w : BalanceEvents(w)' = BalanceEvents(w)
    BY <2>1 DEF EventsOf, BalanceEvents
  <2>3. \A t : Told(t)' <=> Told(t)
    BY <2>1 DEF Told, EventsOf, InLedger, Moving, EventType
  <2> QED  BY <2>1, <2>2, <2>3 DEF EventInv, EventsHaveRows, RowsTold, VersionsCounted,
                                   BalanceEventsAreGapless
<1>2. ASSUME NEW p \in Processes, Step(p) PROVE EventInv'
  <2>1. UNCHANGED db \/ Records(p) \/ Pays(p)
    BY <1>2, StepShape DEF LockInv, Quiet, Locks, Claims
  <2> QED  BY <1>1, <2>1, RecordsEventInv, PaysEventInv
<1>3. ASSUME NEW p \in Processes, Fail(p) \/ (\E r \in Requests : Receive(p, r))
      PROVE  EventInv'
  BY <1>1, <1>3 DEF Fail, Receive
<1>4. CASE UNCHANGED vars
  BY <1>1, <1>4 DEF vars, db
<1> QED  BY <1>2, <1>3, <1>4 DEF Next

LEMMA AlwaysEventInv == Spec => []EventInv
<1>1. Init => LockInv /\ EventInv
  BY InitLockInv, InitEventInv
<1> QED  BY <1>1, NextLockInv, NextEventInv, PTL DEF Spec

\* However many callers race: a committed transaction has exactly the events of its
\* status, in order, and the balance event repeats the ledger entry of the transaction.
THEOREM AlwaysOutboxTellsStory == Spec => []OutboxTellsStory
<1>1. ASSUME LockInv, EntryInv, EventInv PROVE OutboxTellsStory
  <2> SUFFICES ASSUME NEW t \in DOMAIN txs
               PROVE  \E i, j \in EventsOf(t) :
                        /\ EventsOf(t) = {i, j} /\ i <= j
                        /\ outbox[i].type = EventType(txs[t].status)
                        /\ IF txs[t].status = "PROCESSED" /\ txs[t].req.kind # "LOSS"
                           THEN outbox[j].type = "BalanceChanged" /\ outbox[j].entry = EntryOf(t)
                           ELSE i = j
    BY DEF OutboxTellsStory
  <2>1. \A e : InLedger(t, e) /\ Moving(txs[t]) => e = EntryOf(t)
    <3> SUFFICES ASSUME NEW e, InLedger(t, e), Moving(txs[t]) PROVE e = EntryOf(t)
      OBVIOUS
    <3>1. PICK w \in Wallets : w = txs[t].req.wallet
      BY <1>1 DEF EntryInv, RowsHaveEntries
    <3>2. PICK k \in DOMAIN ledger[w] : ledger[w][k] = e /\ e.tx = t
      BY <3>1 DEF InLedger
    <3>3. t # NoTx
      BY <1>1 DEF LockInv, TypeOK, DbTypeOK, NoTx
    <3>4. \A i \in DOMAIN ledger[w] : ledger[w][i].tx = t => i = k
      BY <1>1, <3>1, <3>2, <3>3 DEF EntryInv, EntriesDistinct
    <3>5. k = CHOOSE i \in DOMAIN ledger[w] : ledger[w][i].tx = t
      BY <3>2, <3>4
    <3> QED  BY <3>1, <3>2, <3>5 DEF EntryOf
  <2>2. Told(t)
    BY <1>1 DEF EventInv, RowsTold
  <2> QED  BY <2>1, <2>2 DEF Told, Moving
<1> QED  BY <1>1, AlwaysLockInv, AlwaysEntryInv, AlwaysEventInv, PTL

\* The balance events of a wallet carry its versions without a gap, in the order in
\* which they were committed.
THEOREM AlwaysBalanceEventsAreGapless == Spec => []BalanceEventsAreGapless
<1>1. EventInv => BalanceEventsAreGapless
  BY DEF EventInv
<1> QED  BY <1>1, AlwaysEventInv, PTL
=============================================================================

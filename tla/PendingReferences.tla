------------------------- MODULE PendingReferences -------------------------
(***************************************************************************)
(* PendingReferencesWorker: every ten seconds it fetches the postponed       *)
(* wagers whose next_retry_at has passed, a batch at a time, and gives each  *)
(* to a goroutine of its own that calls ProcessWagerUseCase.Execute with the *)
(* input rebuilt from the row.  Several instances of the service run one     *)
(* worker each: a fetch may follow another at any time, and what they        *)
(* fetched and have not yet retried is one set.                              *)
(***************************************************************************)
EXTENDS ProcessWagerProperties, Rows

CONSTANTS
  Workers,          \* the processes that run retries; the others are callers
  BatchSize         \* LIMIT of the fetch

ASSUME WorkersAssumption == Workers \subseteq Processes
ASSUME BatchAssumption == BatchSize \in Nat \ {0}

VARIABLES
  due,              \* rows with next_retry_at <= NOW(), by next_retry_at
  batch             \* rows fetched, whose goroutines have not called Execute yet

pendingVars == <<vars, due, batch>>

Callers == Processes \ Workers
Postponed == {t \in DOMAIN txs : txs[t].status = "PENDING_REFERENCE"}
\* How many rows a fetch returns.
Fetched == IF Len(due) < BatchSize THEN Len(due) ELSE BatchSize

\* Mutant: the input is rebuilt without the reference.
InputWithoutReference(t) == [txs[t].req EXCEPT !.ref = NoRef]
\* The ProcessWagerInput rebuilt from the columns of a row: every field that was
\* hashed when the row was inserted, and its key.
RetryInput(t) == txs[t].req

(***************************************************************************)
(* Steps.                                                                   *)
(***************************************************************************)
\* Mutant: rows of any status are fetched.
AnyRowExpires(t) ==
  /\ t \in DOMAIN txs \ Members(due)
  /\ due' = Append(due, t)
  /\ UNCHANGED <<vars, batch>>
\* The next_retry_at of a postponed row passes: five seconds after it was
\* postponed, one minute after each fetch.
Expire(t) ==
  /\ t \in Postponed \ Members(due)
  /\ due' = Append(due, t)
  /\ UNCHANGED <<vars, batch>>

\* Mutant: the order of next_retry_at is reversed.
FetchNewest ==
  /\ due # <<>> /\ FreeConnection
  /\ due' = SubSeq(due, 1, Len(due) - Fetched)
  /\ batch' = batch \cup Members(SubSeq(due, Len(due) - Fetched + 1, Len(due)))
  /\ UNCHANGED vars
\* FindPendingReferences: one UPDATE ... RETURNING through the pool pushes
\* next_retry_at of the oldest due rows a minute ahead and returns them.
FetchPending ==
  /\ due # <<>> /\ FreeConnection
  /\ due' = SubSeq(due, Fetched + 1, Len(due))
  /\ batch' = batch \cup Members(SubSeq(due, 1, Fetched))
  /\ UNCHANGED vars

\* A goroutine of processPending calls Execute.
Retry(p, t) ==
  /\ t \in batch
  /\ Receive(p, RetryInput(t))
  /\ batch' = batch \ {t}
  /\ UNCHANGED due

\* The rows of a fetch are lost: the instance stops, or reading them fails after
\* the UPDATE.  They expire again.
LoseBatch ==
  /\ batch # {}
  /\ batch' = {}
  /\ UNCHANGED <<vars, due>>

\* What Execute does in callers and in retries.
ExecuteStep ==
  /\ \/ \E p \in Callers, r \in Requests : Receive(p, r)
     \/ \E p \in Processes : Step(p) \/ Fail(p)
  /\ UNCHANGED <<due, batch>>

PendingInit == Init /\ due = <<>> /\ batch = {}

PendingNext ==
  \/ ExecuteStep
  \/ \E t \in DOMAIN txs : Expire(t) \/ \E p \in Workers : Retry(p, t)
  \/ FetchPending
  \/ LoseBatch

PendingSpec == PendingInit /\ [][PendingNext]_pendingVars

\* Ids that the keys of an instance bound: a key is committed once.
Ids == 1..Cardinality(Keys)

\* Clocks advance and the ticker goes on; the pool serves its waiters in turn;
\* goroutines run; failures do not go on for ever.
PendingLiveSpec ==
  /\ PendingSpec
  /\ \A p \in Processes :
       WF_pendingVars(Step(p) /\ UNCHANGED <<due, batch>>)
         /\ SF_pendingVars(LockWallet(p) /\ UNCHANGED <<due, batch>>)
  /\ \A t \in Ids : /\ WF_pendingVars(Expire(t))
                    /\ SF_pendingVars(\E p \in Workers : Retry(p, t))
  /\ SF_pendingVars(FetchPending)
  /\ <>[][~ (LoseBatch \/ \E p \in Processes : Fail(p))]_pendingVars

(***************************************************************************)
(* Properties.                                                              *)
(***************************************************************************)
\* What was fetched, or is due, is a postponed wager, and no row is twice in the
\* order of the fetch (FindPendingReferences: WHERE status = 'PENDING_REFERENCE').
PendingTypeOK ==
  /\ TypeOK
  /\ due \in Seq(Postponed) /\ Cardinality(Members(due)) = Len(due)
  /\ batch \subseteq Postponed

\* The worker is one more caller of Execute: whatever it fetches, retries twice
\* or loses, the wagers behave as without it, so all that holds of
\* ProcessWager!Spec holds of the service with its worker (line 105).
ActsAsACaller == Spec

\* A retry that is answered meets the row it was fetched for: the input rebuilt
\* from the columns hashes to what was stored, and no retry creates a second
\* transaction, moves money or is refused as a conflict (lines 86-105).
RetriesMeetTheirRow ==
  \A p \in Workers :
    pc[p] = "answered" =>
      /\ out[p].error = "none" /\ out[p].replay
      /\ out[p].tx \in Postponed /\ txs[out[p].tx].req = req[p]

\* No postponed wager starves behind others: each one is retried, although a
\* fetch is bounded, goroutines die and batches are lost (ORDER BY
\* next_retry_at, LIMIT, transaction_repo.go:205).
EveryPostponedIsRetried ==
  \A t \in Ids :
    t \in Postponed ~> \E p \in Workers : pc[p] = "answered" /\ out[p].tx = t

\* A postponed wager whose reference has been paid is settled in the end
\* (transaction.go: "O worker de referencias tentara resolver").
EveryPostponedIsSettled ==
  \A t \in Ids :
    /\ t \in Postponed
    /\ \E o \in DOMAIN txs : /\ txs[o].status = "PROCESSED"
                             /\ txs[o].req.provider = txs[t].req.provider
                             /\ txs[o].req.ext = txs[t].req.ref
    ~> t \notin Postponed
=============================================================================
